---------------------------- MODULE Spec2Model ----------------------------
(***************************************************************************)
(* Streaming speech segmentation and session buffering of                  *)
(* src/ovms/scripts/speech-to-text/whisper.py.                             *)
(*                                                                         *)
(* Units.  Time is counted in ticks of 1/TARGET_SAMPLE_RATE second, so a   *)
(* 16 kHz sample lasts one tick and a 30 ms frame 480 ticks; the float     *)
(* seconds of the source are these ticks divided by 16000.  Audio bytes    *)
(* are kept in granules of GranuleBytes bytes (half an int16 frame), each  *)
(* granule carrying one content label and its position in the session's    *)
(* stream, plus a count of stray bytes that do not fill a sample.          *)
(***************************************************************************)
EXTENDS Integers, Sequences, FiniteSets, TLC

\* ------------------------------------------------------------ constants

TARGET_SAMPLE_RATE == 16000
FRAME_DURATION_MS == 30
HALLUCINATE_THRESHOLD == 100
MIN_SPEECH_DURATION_MS == 250
MIN_SILENCE_DURATION_MS == 500
SPEECH_PAD_MS == 400

\* int(TARGET_SAMPLE_RATE * FRAME_DURATION_MS / 1000): samples per VAD frame
VAD_FRAME_SIZE == (TARGET_SAMPLE_RATE * FRAME_DURATION_MS) \div 1000

TicksPerMs == TARGET_SAMPLE_RATE \div 1000

Max(a, b) == IF a >= b THEN a ELSE b

Min(a, b) == IF a <= b THEN a ELSE b

\* a local variable: the value is computed first, once, and Body reads it
With(value, Body(_)) == IF value = value THEN Body(value) ELSE Body(value)

\* ------------------------------------------------------------ bounds

\* frames classified in one run of the segmenter on its own
MaxVadFrames == 9
\* largest frame count of a non-default VadConfig parameter
MaxCfgFrames == 2
\* calls to execute in one run of the session model
MaxCalls == 3
\* calls to execute in one run of the streaming model
MaxStreamCalls == 6
\* pieces a stream is cut into in the split model
MaxPieces == 3
\* chunks joined into the buffer of one run of process_with_vad on its own
MaxGateChunks == 3
\* chunks the engine returns in one speech-to-text run
MaxFileChunks == 3
\* calls of the model in which the engine may fail
MaxFailCalls == 3
\* calls of the model with two sessions
MaxPairCalls == 4
\* calls of the model in which request handlers overlap
MaxRaceCalls == 3
\* chunks in one create_srt_content run
MaxSrtChunks == 3

\* ------------------------------------------- EnhancedVadProcessor.__init__

\* the constructor's conversion of its millisecond parameters to frame counts
VadConfig(speech_ms, silence_ms, pad_ms) ==
    [min_speech_duration_ms |-> speech_ms,
     min_speech_frames |-> speech_ms \div FRAME_DURATION_MS,
     min_silence_frames |-> silence_ms \div FRAME_DURATION_MS,
     speech_pad_frames |-> pad_ms \div FRAME_DURATION_MS]

DefaultVadConfig ==
    VadConfig(MIN_SPEECH_DURATION_MS, MIN_SILENCE_DURATION_MS, SPEECH_PAD_MS)

\* ------------------------------------------- EnhancedVadProcessor.reset_state

reset_state ==
    [is_speech |-> FALSE, silence_frames |-> 0, speech_frame_count |-> 0,
     speech_start_frame |-> 0, indices |-> << >>]

\* ------------------------------------------- EnhancedVadProcessor.segment_audio

\* a start that is never before the end of the last emitted segment
SpeechStartFrameMutAfterLastSegment(st, i, cfg) ==
    Max(IF st.indices = << >> THEN 0 ELSE st.indices[Len(st.indices)][2],
        i - cfg.speech_pad_frames)

\* speech_start_frame of a candidate that opens at frame i
SpeechStartFrame(st, i, cfg) == Max(0, i - cfg.speech_pad_frames)

\* an end that takes in the closing silence
SpeechEndFrameMutCurrentFrame(i, silence_frames) == i + 1

\* speech_end_frame of a candidate closed at frame i
SpeechEndFrame(i, silence_frames) == i - silence_frames + 1

\* one pass of the while loop: frame i, classified sp
VadStep(st, i, sp, cfg) ==
    IF ~st.is_speech /\ sp
    THEN [st EXCEPT !.is_speech = TRUE,
                    !.speech_start_frame = SpeechStartFrame(st, i, cfg),
                    !.speech_frame_count = 1,
                    !.silence_frames = 0]
    ELSE IF st.is_speech
    THEN LET cnt == IF sp THEN st.speech_frame_count + 1 ELSE st.speech_frame_count
             sil == IF sp THEN 0 ELSE st.silence_frames + 1
         IN  IF sil >= cfg.min_silence_frames
             THEN [st EXCEPT !.is_speech = FALSE,
                             !.speech_frame_count = 0,
                             !.silence_frames = 0,
                             !.indices =
                                 IF cnt >= cfg.min_speech_frames
                                 THEN Append(@, <<st.speech_start_frame,
                                                  SpeechEndFrame(i, sil)>>)
                                 ELSE @]
             ELSE [st EXCEPT !.speech_frame_count = cnt, !.silence_frames = sil]
    ELSE st

\* the end of the buffer emitting whatever candidate is open
VadFinishMutNoMinimum(st, frame_count, cfg) ==
    IF st.is_speech
    THEN [st EXCEPT !.indices = Append(@, <<st.speech_start_frame, frame_count>>)]
    ELSE st

\* after the loop: the candidate still open at the end of the buffer
VadFinish(st, frame_count, cfg) ==
    IF st.is_speech /\ st.speech_frame_count >= cfg.min_speech_frames
    THEN [st EXCEPT !.indices = Append(@, <<st.speech_start_frame, frame_count>>)]
    ELSE st

\* the while loop over frames lo..hi-1 (frame i is cls[i+1]), from state st
RECURSIVE VadLoop(_, _, _, _, _)
VadLoop(st, lo, hi, cls, cfg) ==
    IF lo >= hi THEN st
    ELSE IF hi = lo + 1 THEN VadStep(st, lo, cls[lo + 1], cfg)
    ELSE With(VadLoop(st, lo, (lo + hi) \div 2, cls, cfg),
              LAMBDA half : VadLoop(half, (lo + hi) \div 2, hi, cls, cfg))

\* speech_segments_indices for the classification sequence cls (frame i is cls[i+1])
SegmentIndices(cls, cfg) ==
    VadFinish(VadLoop(reset_state, 0, Len(cls), cls, cfg), Len(cls), cfg).indices

\* start_time / end_time of a frame index, in milliseconds
FrameTimeMs(frame) == frame * FRAME_DURATION_MS

\* ------------------------------------------------------------ audio bytes

\* bytes per granule: half an int16 frame, a quarter of a float32 frame
GranuleBytes == VAD_FRAME_SIZE

\* content of a granule; every sample of a granule has the same value
Labels == {"zero", "speech", "noise", "lowest"}

\* a loud sample: three times the default threshold, so that speech followed
\* by twice as much silence has a mean of exactly the threshold
LoudSample == 3 * HALLUCINATE_THRESHOLD

\* the least int16 value
LowestSample == 0 - 32768

\* the int16 value of the samples of a granule
SampleValue(l) ==
    IF l = "zero" THEN 0 ELSE IF l = "lowest" THEN LowestSample ELSE LoudSample

\* b"": no granules, no stray byte
EmptyBuf == [g |-> << >>, x |-> 0]

\* len(bytes)
BufLen(b) == Len(b.g) * GranuleBytes + b.x

\* bytes + bytes
BufCat(a, b) == [g |-> a.g \o b.g, x |-> a.x + b.x]

\* bytes[off:], off a whole number of granules
BufFrom(b, off) ==
    IF off >= BufLen(b) THEN EmptyBuf
    ELSE [g |-> SubSeq(b.g, (off \div GranuleBytes) + 1, Len(b.g)), x |-> b.x]

\* 2 if is_int16 else 4
SampleWidth(is_int16) == IF is_int16 THEN 2 ELSE 4

\* samples held by one granule of a buffer of this format
SamplesPerGranule(is_int16) == GranuleBytes \div SampleWidth(is_int16)

\* seconds of n samples at sample_rate, in ticks
SamplesToTicks(n, sample_rate) == (n * TARGET_SAMPLE_RATE) \div sample_rate

\* calculate_pcm_duration on bytes: whole samples only
calculate_pcm_duration(b, sample_rate, is_int16) ==
    SamplesToTicks(BufLen(b) \div SampleWidth(is_int16), sample_rate)

\* check_buffer_status with the readiness test negated
check_buffer_statusMutReadyBelowTarget(b, sample_rate, is_int16, target_length) ==
    [duration |-> calculate_pcm_duration(b, sample_rate, is_int16),
     ready |-> calculate_pcm_duration(b, sample_rate, is_int16) < target_length]

\* check_buffer_status that finds every buffer ready
check_buffer_statusMutAlwaysReady(b, sample_rate, is_int16, target_length) ==
    [duration |-> calculate_pcm_duration(b, sample_rate, is_int16),
     ready |-> TRUE]

\* check_buffer_status: (buffer_duration, is_ready)
check_buffer_status(b, sample_rate, is_int16, target_length) ==
    [duration |-> calculate_pcm_duration(b, sample_rate, is_int16),
     ready |-> calculate_pcm_duration(b, sample_rate, is_int16) >= target_length]

\* ------------------------------------------------------------ energy gate

\* np.abs of an int16 sample: the result is an int16 too, so the absolute
\* value of the least one wraps around to itself
AbsSample(v) == (((IF v >= 0 THEN v ELSE 0 - v) + 32768) % 65536) - 32768

\* the sum of |sample| over the granules, per sample of a granule: each
\* content's |value| times the granules that hold it
SumAbs(g) ==
    LET count(l) == Cardinality({k \in 1..Len(g) : g[k].l = l})
    IN  AbsSample(SampleValue("zero")) * count("zero")
            + AbsSample(SampleValue("speech")) * count("speech")
            + AbsSample(SampleValue("noise")) * count("noise")
            + AbsSample(SampleValue("lowest")) * count("lowest")

\* _is_audio_loud_enough with a mean equal to the threshold let through
is_audio_loud_enoughMutAtLeast(g, threshold) ==
    /\ Len(g) > 0
    /\ SumAbs(g) >= threshold * Len(g)

\* _is_audio_loud_enough: mean(|sample|) > threshold; the mean of no samples
\* is nan, which is greater than nothing
is_audio_loud_enough(g, threshold) ==
    /\ Len(g) > 0
    /\ SumAbs(g) > threshold * Len(g)

\* ------------------------------------------------------------ frame VAD

\* the external per-frame primitive: it accepts only frames of 10, 20 or 30 ms
\* at the declared rate and raises on any other; a frame is speech when all of
\* it is
VadPrimitive(frame, sample_rate) ==
    IF (VAD_FRAME_SIZE * 1000) \div sample_rate \notin {10, 20, 30}
           \/ ((VAD_FRAME_SIZE * 1000) % sample_rate) # 0
    THEN "raise"
    ELSE IF \A k \in 1..Len(frame) : frame[k].l = "speech" THEN "speech"
    ELSE "nonspeech"

\* process_frame answering speech when the primitive fails
process_frameMutFailureIsSpeech(frame, sample_rate) ==
    VadPrimitive(frame, sample_rate) # "nonspeech"

\* process_frame: the primitive's answer, a failure answered as non-speech
process_frame(frame, sample_rate) == VadPrimitive(frame, sample_rate) = "speech"

\* granules of one frame of a sample array of this format
GranulesPerFrame(is_int16) == VAD_FRAME_SIZE \div SamplesPerGranule(is_int16)

\* is_speech_frames of segment_audio: one answer per whole frame
FrameClasses(g, sample_rate, is_int16) ==
    LET gpf == GranulesPerFrame(is_int16)
        frame_count == (Len(g) * SamplesPerGranule(is_int16)) \div VAD_FRAME_SIZE
    IN  [i \in 1..frame_count |->
            process_frame(SubSeq(g, (i - 1) * gpf + 1, i * gpf), sample_rate)]

\* ticks of a frame index: frame * FRAME_DURATION_MS / 1000 seconds
FrameTicks(frame) == frame * FRAME_DURATION_MS * TicksPerMs

\* the samples and the timestamps of the segment between two frame indices
CutSegment(g, index, is_int16) ==
    LET spg == SamplesPerGranule(is_int16)
        start_sample == index[1] * VAD_FRAME_SIZE
        end_sample == Min(index[2] * VAD_FRAME_SIZE, Len(g) * spg)
    IN  [audio |-> SubSeq(g, (start_sample \div spg) + 1, end_sample \div spg),
         start |-> FrameTicks(index[1]),
         end |-> FrameTicks(index[2]),
         fallback |-> FALSE]

\* the segments without the entry for a buffer in which none was found
SegmentsOfMutNoFallback(g, indices, sample_rate, is_int16) ==
    << >> \o [k \in 1..Len(indices) |-> CutSegment(g, indices[k], is_int16)]

\* the segments with the whole buffer added after them
SegmentsOfMutAlwaysFallback(g, indices, sample_rate, is_int16) ==
    Append(<< >> \o [k \in 1..Len(indices) |-> CutSegment(g, indices[k], is_int16)],
           [audio |-> g, start |-> 0,
            end |-> SamplesToTicks(Len(g) * SamplesPerGranule(is_int16), sample_rate),
            fallback |-> TRUE])

\* the segments cut at the frame indices, or the whole buffer if there is none
SegmentsOf(g, indices, sample_rate, is_int16) ==
    IF indices # << >>
    THEN << >> \o [k \in 1..Len(indices) |-> CutSegment(g, indices[k], is_int16)]
    ELSE << [audio |-> g, start |-> 0,
             end |-> SamplesToTicks(Len(g) * SamplesPerGranule(is_int16), sample_rate),
             fallback |-> TRUE] >>

\* segment_audio with return_timestamps: (segment, (start_time, end_time)) list
segment_audio(g, sample_rate, is_int16, cfg) ==
    With(SegmentIndices(FrameClasses(g, sample_rate, is_int16), cfg),
         LAMBDA indices : SegmentsOf(g, indices, sample_rate, is_int16))

\* process_with_vad with use_vad: the segments, or raised when the bytes do not
\* decode to whole samples (np.frombuffer); loud is the energy gate's answer,
\* frames counts the frames handed to process_frame
process_with_vad(b, sample_rate, is_int16, hallucinate_threshold) ==
    IF BufLen(b) % SampleWidth(is_int16) # 0
    THEN [raised |-> TRUE, segments |-> << >>, loud |-> FALSE, frames |-> 0]
    ELSE IF ~is_audio_loud_enough(b.g, hallucinate_threshold)
    THEN [raised |-> FALSE,
          segments |-> << [audio |-> b.g, start |-> 0,
                           end |-> calculate_pcm_duration(b, sample_rate, is_int16),
                           fallback |-> TRUE] >>,
          loud |-> FALSE,
          frames |-> 0]
    ELSE [raised |-> FALSE,
          segments |-> segment_audio(b.g, sample_rate, is_int16, DefaultVadConfig),
          loud |-> TRUE,
          frames |-> (Len(b.g) * SamplesPerGranule(is_int16)) \div VAD_FRAME_SIZE]

\* ------------------------------------------------------------ rendering

\* format_timedelta: the HH, MM, SS, mmm fields of a time in ticks; td.seconds
\* is the seconds within the day
format_timedelta(t) ==
    LET seconds == (t \div TARGET_SAMPLE_RATE) % 86400
        milliseconds == (t % TARGET_SAMPLE_RATE) \div TicksPerMs
    IN  <<seconds \div 3600, (seconds % 3600) \div 60, seconds % 60, milliseconds>>

\* create_srt_content: one entry per chunk, numbered from 1, in list order
create_srt_content(chunks, time_offset) ==
    [i \in 1..Len(chunks) |->
        [index |-> i,
         start |-> format_timedelta(chunks[i].start_ts + time_offset),
         end |-> format_timedelta(chunks[i].end_ts + time_offset),
         text |-> chunks[i].text]]

\* ------------------------------------------------------------ the engine

\* what pipe.generate may do with one segment
EngineKinds == {"none", "one", "two", "raise"}

\* the chunks pipe.generate returns for a segment lasting dur ticks: in order,
\* relative to the segment's own start, inside the segment
EngineChunks(kind, dur) ==
    IF kind = "one" THEN << [text |-> "a", start_ts |-> 0, end_ts |-> dur] >>
    ELSE IF kind = "two"
    THEN << [text |-> "a", start_ts |-> 0, end_ts |-> dur \div 2],
            [text |-> "b", start_ts |-> dur \div 2, end_ts |-> dur] >>
    ELSE << >>

\* the engine's behaviour on the k-th segment handed to it during one call
ScriptAt(script, k) == IF k <= Len(script) THEN script[k] ELSE script[Len(script)]

\* stream positions of the granules of a piece of audio
Positions(g) == [k \in 1..Len(g) |-> g[k].p]

\* a language parameter: its code, and whether it is already written <|code|>
Lang(code) == [tagged |-> FALSE, code |-> code]

\* the language given to the engine: <|code|>, an already tagged one as it is
FormatLanguage(language) == [language EXCEPT !.tagged = TRUE]

\* ------------------------------------------------------------ session state

SessionIds == {"s1", "s2"}

\* the entry has no "language" key
NoLanguage == [tagged |-> FALSE, code |-> ""]

\* no entry in audio_cache for the id
NoSession ==
    [present |-> FALSE, audio_buffer |-> EmptyBuf, sample_rate |-> 0,
     is_int16 |-> TRUE, processed_length |-> 0, accumulated_chunks |-> << >>,
     overlap_buffer |-> EmptyBuf, last_segment_start_time |-> 0,
     language |-> NoLanguage]

\* the entry created on the first call with audio
NewSession(sample_rate, is_int16) ==
    [present |-> TRUE, audio_buffer |-> EmptyBuf, sample_rate |-> sample_rate,
     is_int16 |-> is_int16, processed_length |-> 0, accumulated_chunks |-> << >>,
     overlap_buffer |-> EmptyBuf, last_segment_start_time |-> 0,
     language |-> NoLanguage]

\* the JSON result of a call
Result(status, message, is_final, has_content, content) ==
    [status |-> status, message |-> message, is_final |-> is_final,
     has_content |-> has_content, content |-> content]

NoResult == Result("none", "", FALSE, FALSE, << >>)

\* abs_start of a segment in a streaming round
AbsStartMutNoProcessedLength(processed_length, time_offset, seg_start) ==
    time_offset + seg_start

\* abs_start with the client's time_offset left out
AbsStartMutNoTimeOffset(processed_length, time_offset, seg_start) ==
    processed_length + seg_start

AbsStart(processed_length, time_offset, seg_start) ==
    processed_length + time_offset + seg_start

\* the loop over the segments of a streaming round: chunks[], or raised with
\* the engine calls made so far
RECURSIVE TranscribeRound(_, _, _, _, _, _, _, _, _)
TranscribeRound(segs, k, script, processed_length, time_offset, fmt, language, chunks, calls) ==
    IF k > Len(segs) THEN [raised |-> FALSE, chunks |-> chunks, calls |-> calls]
    ELSE
    LET seg == segs[k]
        kind == ScriptAt(script, Len(calls) + 1)
        abs_start == AbsStart(processed_length, time_offset, seg.start)
        abs_end == processed_length + time_offset + seg.end
        dur == SamplesToTicks(Len(seg.audio) * SamplesPerGranule(fmt.is_int16),
                              fmt.sample_rate)
        call == [audio |-> Positions(seg.audio), abs_start |-> abs_start,
                 abs_end |-> abs_end, language |-> language, final |-> FALSE,
                 raised |-> kind = "raise"]
        reply == EngineChunks(kind, dur)
        adjusted == [j \in 1..Len(reply) |->
                        [text |-> reply[j].text,
                         start_ts |-> reply[j].start_ts + abs_start,
                         end_ts |-> reply[j].end_ts + abs_start]]
    IN  IF kind = "raise"
        THEN [raised |-> TRUE, chunks |-> chunks, calls |-> Append(calls, call)]
        ELSE TranscribeRound(segs, k + 1, script, processed_length, time_offset, fmt,
                             language, chunks \o adjusted, Append(calls, call))

\* the loop over the segments of _pipeline_finalizer
RECURSIVE TranscribeFinal(_, _, _, _, _, _, _)
TranscribeFinal(segs, k, script, fmt, language, chunks, calls) ==
    IF k > Len(segs) THEN [raised |-> FALSE, chunks |-> chunks, calls |-> calls]
    ELSE
    LET seg == segs[k]
        kind == ScriptAt(script, Len(calls) + 1)
        dur == SamplesToTicks(Len(seg.audio) * SamplesPerGranule(fmt.is_int16),
                              fmt.sample_rate)
        call == [audio |-> Positions(seg.audio), abs_start |-> seg.start,
                 abs_end |-> seg.end, language |-> language, final |-> TRUE,
                 raised |-> kind = "raise"]
        reply == EngineChunks(kind, dur)
        adjusted == [j \in 1..Len(reply) |->
                        [text |-> reply[j].text,
                         start_ts |-> reply[j].start_ts + seg.start,
                         end_ts |-> reply[j].end_ts + seg.end]]
    IN  IF kind = "raise"
        THEN [raised |-> TRUE, chunks |-> chunks, calls |-> Append(calls, call)]
        ELSE TranscribeFinal(segs, k + 1, script, fmt, language,
                             chunks \o adjusted, Append(calls, call))

\* _pipeline_finalizer: status, the rendered chunks, their count
pipeline_finalizer(audio_buffer, fmt, language, script) ==
    IF BufLen(audio_buffer) = 0
    THEN [status |-> "empty_buffer", result |-> << >>, chunks |-> 0, calls |-> << >>]
    ELSE
    With(process_with_vad(audio_buffer, fmt.sample_rate, fmt.is_int16,
                          HALLUCINATE_THRESHOLD),
         LAMBDA v :
    IF v.raised
    THEN [status |-> "error", result |-> << >>, chunks |-> 0, calls |-> << >>]
    ELSE
    With(TranscribeFinal(v.segments, 1, script, fmt, FormatLanguage(language),
                         << >>, << >>),
         LAMBDA t :
    IF t.raised
    THEN [status |-> "error", result |-> << >>, chunks |-> 0, calls |-> t.calls]
    ELSE IF t.chunks # << >>
    THEN [status |-> "success", result |-> create_srt_content(t.chunks, 0),
          chunks |-> Len(t.chunks), calls |-> t.calls]
    ELSE [status |-> "no_speech_detected", result |-> << >>, chunks |-> 0,
          calls |-> t.calls]))

\* the audio a finalize works on, with the overlap left out
RemainingAudioMutPendingOnly(entry) == entry.audio_buffer

\* the audio a finalize works on: the overlap, when there is one, then the
\* pending bytes
RemainingAudio(entry) ==
    IF BufLen(entry.overlap_buffer) > 0
    THEN BufCat(entry.overlap_buffer, entry.audio_buffer)
    ELSE entry.audio_buffer

\* _finalize_processing for an id that is in audio_cache: the result and the
\* engine calls made; the entry itself is only read
finalize_processing(entry, script) ==
    With(RemainingAudio(entry),
         LAMBDA audio_buffer :
    With(IF BufLen(audio_buffer) > 0
         THEN pipeline_finalizer(
                  audio_buffer,
                  [sample_rate |-> entry.sample_rate, is_int16 |-> entry.is_int16],
                  IF entry.language # NoLanguage THEN entry.language ELSE Lang("zh"),
                  script)
         ELSE [status |-> "not_called", result |-> << >>, chunks |-> 0,
               calls |-> << >>],
         LAMBDA r :
        IF BufLen(audio_buffer) > 0 /\ r.status = "success" /\ r.chunks > 0
        THEN [result |-> Result("completed", "Processing completed", TRUE, TRUE,
                                r.result),
              calls |-> r.calls]
        ELSE IF entry.accumulated_chunks # << >>
        THEN [result |-> Result("completed", "Processing completed", TRUE, TRUE,
                                create_srt_content(entry.accumulated_chunks, 0)),
              calls |-> r.calls]
        ELSE [result |-> Result("completed",
                                "Session processing completed, no valid transcription results",
                                TRUE, TRUE, << >>),
              calls |-> r.calls]))

\* what a handler hands back: the exception flag, the map, the result, the
\* engine calls it made
Outcome(raised, cache, result, calls) ==
    [raised |-> raised, audio_cache |-> cache, result |-> result, calls |-> calls,
     round |-> FALSE, process_data |-> EmptyBuf]

\* the same for a ready round, with the combined buffer it formed
RoundOutcome(cache, result, calls, process_data) ==
    [raised |-> FALSE, audio_cache |-> cache, result |-> result, calls |-> calls,
     round |-> TRUE, process_data |-> process_data]

\* process_data with the overlap left out
CombinedBufferMutPendingOnly(entry) == entry.audio_buffer

\* process_data of a ready round: the overlap, when there is one, then the
\* pending bytes
CombinedBuffer(entry) ==
    IF BufLen(entry.overlap_buffer) > 0
    THEN BufCat(entry.overlap_buffer, entry.audio_buffer)
    ELSE entry.audio_buffer

\* the offset of the withheld segment taken as the start of the buffer
LastSegmentStartSampleMutZero(last_start, sample_rate, is_int16) == 0

\* last_segment_start_sample: the byte offset in process_data at which the
\* withheld segment is taken to start, int(last_start * sample_rate) samples of
\* the session's width; last_start is a whole number of milliseconds and the
\* float product is taken as exact
LastSegmentStartSample(last_start, sample_rate, is_int16) ==
    (((last_start \div TicksPerMs) * sample_rate) \div 1000) * SampleWidth(is_int16)

\* accumulated_chunks with the round's chunks in place of the earlier ones
AccumulatedChunksMutReplaces(accumulated_chunks, current_chunks) == current_chunks

\* accumulated_chunks.extend(current_chunks)
AccumulatedChunks(accumulated_chunks, current_chunks) ==
    accumulated_chunks \o current_chunks

\* the except block with the chunks made before the exception kept
RoundFailedMutKeepsChunks(cache, sid, kept, t, process_data) ==
    RoundOutcome([cache EXCEPT
                     ![sid] = [kept EXCEPT !.accumulated_chunks = @ \o t.chunks]],
                 Result("error", "engine", FALSE, FALSE, << >>), t.calls, process_data)

\* the except block of the round, reached from the engine's exception: the
\* entry is left as the round has written it so far
RoundFailed(cache, sid, kept, t, process_data) ==
    RoundOutcome([cache EXCEPT ![sid] = kept],
                 Result("error", "engine", FALSE, FALSE, << >>), t.calls, process_data)

\* the ready round of _execute_streaming_service, from "Prepare audio data for
\* processing" to the result; entry is the session after the append
ProcessRound(cache, sid, entry, buffer_duration, params, script) ==
    With(CombinedBuffer(entry),
         LAMBDA process_data :
    With(process_with_vad(process_data, entry.sample_rate, entry.is_int16,
                          params.hallucinate_threshold),
         LAMBDA v :
    LET fmt == [sample_rate |-> entry.sample_rate, is_int16 |-> entry.is_int16]
        cleared == [entry EXCEPT !.audio_buffer = EmptyBuf]
        segs == v.segments
        incomplete == params.action # "finish-task" /\ Len(segs) > 0
        last_start == segs[Len(segs)].start
        last_segment_start_sample ==
            LastSegmentStartSample(last_start, entry.sample_rate, entry.is_int16)
        audio_segments == IF incomplete THEN SubSeq(segs, 1, Len(segs) - 1) ELSE segs
    IN
    IF v.raised
    THEN RoundOutcome([cache EXCEPT ![sid] = cleared],
                      Result("error", "decode", FALSE, FALSE, << >>), << >>,
                      process_data)
    ELSE
    With(IF incomplete
         THEN [cleared EXCEPT
                  !.overlap_buffer = BufFrom(process_data, last_segment_start_sample),
                  !.last_segment_start_time = last_start]
         ELSE cleared,
         LAMBDA kept :
    With(TranscribeRound(audio_segments, 1, script, entry.processed_length,
                         params.time_offset, fmt, FormatLanguage(params.language),
                         << >>, << >>),
         LAMBDA t :
    IF t.raised
    THEN RoundFailed(cache, sid, kept, t, process_data)
    ELSE
    With([kept EXCEPT
             !.processed_length =
                 @ + (IF incomplete /\ kept.last_segment_start_time > 0
                      THEN kept.last_segment_start_time
                      ELSE buffer_duration),
             !.language = IF t.chunks # << >> THEN params.language ELSE @,
             !.accumulated_chunks = AccumulatedChunks(@, t.chunks)],
         LAMBDA done :
    IF t.chunks # << >>
    THEN RoundOutcome([cache EXCEPT ![sid] = done],
                      Result("processing", "", FALSE, TRUE,
                             create_srt_content(done.accumulated_chunks, 0)),
                      t.calls, process_data)
    ELSE RoundOutcome([cache EXCEPT ![sid] = done],
                      Result("no_speech_detected", "", FALSE, FALSE, << >>),
                      t.calls, process_data))))))

\* the result of a call that finalizes, with the entry deleted at the end
FinalizedMutDeletesSession(cache, sid, f) ==
    Outcome(FALSE, [cache EXCEPT ![sid] = NoSession], f.result, f.calls)

\* the result of a call that finalizes, with the entry made new at the end
FinalizedMutResetsSession(cache, sid, f) ==
    Outcome(FALSE,
            [cache EXCEPT ![sid] = NewSession(cache[sid].sample_rate,
                                              cache[sid].is_int16)],
            f.result, f.calls)

\* the result of a call that finalizes: the session's entry is kept
Finalized(cache, sid, f) == Outcome(FALSE, cache, f.result, f.calls)

\* a cache-clear request that leaves the entry where it is
ClearedMutKeepsSession(cache, sid) == cache

\* a cache-clear request that empties the whole map
ClearedMutClearsAll(cache, sid) == [s \in DOMAIN cache |-> NoSession]

\* del self.audio_cache[session_id]
Cleared(cache, sid) == [cache EXCEPT ![sid] = NoSession]

\* the pending bytes replaced by the data of the call
AppendedMutReplaces(entry, data) == [entry EXCEPT !.audio_buffer = data]

\* self.audio_cache[session_id]["audio_buffer"] += audio_data
Appended(entry, data) == [entry EXCEPT !.audio_buffer = BufCat(@, data)]

\* _execute_streaming_service
execute_streaming_service(cache, audio, params, script) ==
    LET sid == params.task_id IN
    IF sid = ""
    THEN Outcome(TRUE, cache, NoResult, << >>)
    ELSE IF params.clear_cache /\ cache[sid].present
    THEN Outcome(FALSE, Cleared(cache, sid),
                 Result("cache_cleared", "Cache cleared", FALSE, FALSE, << >>), << >>)
    ELSE IF params.action = "finish-task" /\ cache[sid].present
    THEN Finalized(cache, sid, finalize_processing(cache[sid], script))
    ELSE IF (~audio.given \/ BufLen(audio.data) = 0) /\ cache[sid].present
    THEN Finalized(cache, sid, finalize_processing(cache[sid], script))
    ELSE IF ~audio.given
    THEN Outcome(FALSE, cache,
                 Result("error", "First call must provide audio data", FALSE, FALSE,
                        << >>), << >>)
    ELSE
    With(Appended(IF cache[sid].present THEN cache[sid]
                  ELSE NewSession(params.sample_rate, params.is_int16),
                  audio.data),
         LAMBDA entry :
    LET status == check_buffer_status(entry.audio_buffer, entry.sample_rate,
                                      entry.is_int16, params.target_buffer_length)
    IN  IF ~status.ready /\ params.action # "finish-task"
        THEN Outcome(FALSE, [cache EXCEPT ![sid] = entry],
                     Result("buffering", "Audio buffer accumulating", FALSE, FALSE,
                            << >>), << >>)
        ELSE ProcessRound(cache, sid, entry, status.duration, params, script))

\* the keys of a request's params that execute copies into its own params;
\* any other key (such as "action") is dropped
ParsedParams(user_params) == [user_params EXCEPT !.action = ""]

\* execute with the exception of the service left to the caller
executeMutNoCatch(cache, audio, user_params, script) ==
    execute_streaming_service(cache, audio, ParsedParams(user_params), script)

\* execute, for the speech-to-text-ws service: an exception becomes a status
\* "error" result
execute(cache, audio, user_params, script) ==
    With(execute_streaming_service(cache, audio, ParsedParams(user_params), script),
         LAMBDA o :
        IF o.raised
        THEN Outcome(FALSE, o.audio_cache,
                     Result("error", "exception", FALSE, FALSE, << >>), o.calls)
        ELSE o)

\* ------------------------------------------------ the speech-to-text service

\* the tolerance of the jump test, 0.5 s, in ticks
JumpTolerance == TARGET_SAMPLE_RATE \div 2

\* time_offset as it stands when a chunk is stamped: raised by last_chunk_end
\* when the chunk starts more than the tolerance before it
OffsetAfter(time_offset, last_chunk_end, start_ts) ==
    IF start_ts < last_chunk_end - JumpTolerance
    THEN time_offset + last_chunk_end
    ELSE time_offset

\* a time in ticks as "{:.2f}" writes it, in hundredths of a second
Hundredths(t) == (t + TARGET_SAMPLE_RATE \div 200) \div (TARGET_SAMPLE_RATE \div 100)

\* the loop over result.chunks: per chunk the offset used, the absolute start
\* and end, and the line written
RECURSIVE FileLoop(_, _, _, _, _)
FileLoop(chunks, k, time_offset, last_chunk_end, lines) ==
    IF k > Len(chunks) THEN lines
    ELSE
    LET chunk == chunks[k]
        offset == OffsetAfter(time_offset, last_chunk_end, chunk.start_ts)
        start == chunk.start_ts + offset
        end == chunk.end_ts + offset
    IN  FileLoop(chunks, k + 1, offset, chunk.end_ts,
                 Append(lines, [time_offset |-> offset, start |-> start, end |-> end,
                                line |-> <<Hundredths(start), Hundredths(end),
                                           chunk.text>>]))

\* what _execute_file_service has returned before it is called
NoFileRun == [raised |-> FALSE, lines |-> << >>]

\* _execute_file_service, from the chunks the engine returns for the audio
execute_file_service(given, chunks) ==
    IF ~given THEN [raised |-> TRUE, lines |-> << >>]
    ELSE [raised |-> FALSE, lines |-> FileLoop(chunks, 1, 0, 0, << >>)]

\* request handlers that may be under way at the same time
Threads == {"t1", "t2"}

\* ------------------------------------------------ the session model: inputs

NoCall ==
    [kind |-> "none", task_id |-> "", audio_given |-> FALSE, audio |-> EmptyBuf,
     clear_cache |-> FALSE, action |-> "", round |-> FALSE, engine_calls |-> 0]

NoTrail ==
    [rounds |-> 0, prev_overlap |-> EmptyBuf, appended |-> EmptyBuf,
     combined |-> EmptyBuf, expected |-> EmptyBuf, between |-> 0, waited |-> 0,
     carried |-> 0]

NoPlan == [phase |-> "none", pieces |-> << >>]

Int16At16k == [sample_rate |-> TARGET_SAMPLE_RATE, is_int16 |-> TRUE]

Float32At16k == [sample_rate |-> TARGET_SAMPLE_RATE, is_int16 |-> FALSE]

Int16At8k == [sample_rate |-> TARGET_SAMPLE_RATE \div 2, is_int16 |-> TRUE]

Int16At48k == [sample_rate |-> 3 * TARGET_SAMPLE_RATE, is_int16 |-> TRUE]

\* session formats the client may declare
Formats == {Int16At16k, Float32At16k, Int16At8k}

\* frames of the shortest run of speech the segmenter keeps
ShortFrames == DefaultVadConfig.min_speech_frames

\* frames of the shortest silence that closes a segment
LongFrames == DefaultVadConfig.min_silence_frames

\* target_buffer_length values, in ticks
Targets == {FrameTicks(ShortFrames), FrameTicks(ShortFrames + LongFrames)}

ClientConfig(fmt, target) ==
    [sample_rate |-> fmt.sample_rate, is_int16 |-> fmt.is_int16,
     target_buffer_length |-> target,
     hallucinate_threshold |-> HALLUCINATE_THRESHOLD,
     time_offset |-> 0, language |-> Lang("en")]

ClientConfigs == {ClientConfig(fmt, target) : fmt \in Formats, target \in Targets}

DefaultClient == ClientConfig(Int16At16k, FrameTicks(ShortFrames))

\* a time_offset a client may send, in ticks: three seconds
TimeOffset == FrameTicks(100)

\* the same parameters sent together with that time_offset
OffsetClient(params) == [params EXCEPT !.time_offset = TimeOffset]

\* ------------------------------------------------------------ state

VARIABLES
    vcfg,         \* segmenter run: the VadConfig of the processor
    vcls,         \* segmenter run: classifications of the frames seen so far
    vst,          \* segmenter run: the processor's state variables
    vdone,        \* segmenter run: the loop and the final check have finished
    audio_cache,  \* OvmsPythonModel.audio_cache: session id -> entry
    result,       \* the result of the latest call to execute
    call,         \* the latest call: its inputs, and whether it ran a ready round
    client,       \* the parameters the client sends with every call
    submitted,    \* per session id, every segment handed to the engine so far
    streamlen,    \* per session id, granules appended since the entry was created
    trail,        \* per session id, what is needed to compare consecutive rounds
    ncalls,       \* calls made so far
    plan,         \* split run: the pieces of the stream still to deliver
    gate,         \* process_with_vad run: its arguments and what it returned
    file,         \* speech-to-text run: the engine's chunks and what was returned
    race,         \* overlapping calls: where each request handler stands
    srt           \* create_srt_content run: its arguments and what it returned

vadVars == <<vcfg, vcls, vst, vdone>>

sessVars ==
    <<audio_cache, result, call, client, submitted, streamlen, trail, ncalls, plan>>

\* the runs that do not go through a streaming session one call at a time
soloVars == <<file, race, srt>>

vars == <<vcfg, vcls, vst, vdone, audio_cache, result, call, client, submitted,
          streamlen, trail, ncalls, plan, gate, file, race, srt>>

\* ------------------------------------------------ the segmenter on its own

CfgMs == {k * FRAME_DURATION_MS : k \in 0..MaxCfgFrames}

VadConfigs ==
    {VadConfig(a, b, c) : a \in CfgMs, b \in CfgMs, c \in CfgMs}
        \cup {DefaultVadConfig}

\* no session, no call made yet
InitSession ==
    /\ audio_cache = [sid \in SessionIds |-> NoSession]
    /\ result = NoResult
    /\ call = NoCall
    /\ submitted = [sid \in SessionIds |-> << >>]
    /\ streamlen = [sid \in SessionIds |-> 0]
    /\ trail = [sid \in SessionIds |-> NoTrail]
    /\ ncalls = 0

\* what process_with_vad has returned before it is called
NoGateRun == [raised |-> FALSE, segments |-> << >>, loud |-> FALSE, frames |-> 0]

\* no process_with_vad run
IdleGate ==
    gate = [buf |-> EmptyBuf, fmt |-> Int16At16k, threshold |-> HALLUCINATE_THRESHOLD,
            chunks |-> 0, ran |-> FALSE, out |-> NoGateRun]

\* no speech-to-text run
IdleFile == file = [given |-> TRUE, chunks |-> << >>, ran |-> FALSE, out |-> NoFileRun]

\* no request handler under way
IdleRace ==
    race = [mode |-> "serial", pc |-> [t \in Threads |-> "idle"],
            snap |-> [t \in Threads |-> NoSession],
            duration |-> [t \in Threads |-> 0], seen |-> {}]

\* no create_srt_content run
IdleSrt == srt = [chunks |-> << >>, time_offset |-> 0, ran |-> FALSE, out |-> << >>]

\* none of the three
IdleSolo == IdleFile /\ IdleRace /\ IdleSrt

\* no segmenter run
IdleVad ==
    /\ vcfg = DefaultVadConfig
    /\ vcls = << >>
    /\ vst = reset_state
    /\ vdone = FALSE

InitVad ==
    /\ vcfg \in VadConfigs
    /\ vcls = << >>
    /\ vst = reset_state
    /\ vdone = FALSE
    /\ InitSession
    /\ client = DefaultClient
    /\ plan = NoPlan
    /\ IdleGate
    /\ IdleSolo

\* the loop body on the next frame, whatever the primitive answers for it
VadFrame ==
    /\ ~vdone
    /\ Len(vcls) < MaxVadFrames
    /\ \E sp \in BOOLEAN :
          /\ vcls' = Append(vcls, sp)
          /\ vst' = VadStep(vst, Len(vcls), sp, vcfg)
    /\ UNCHANGED <<vcfg, vdone>>
    /\ UNCHANGED sessVars
    /\ UNCHANGED gate
    /\ UNCHANGED soloVars

\* the buffer ends here: the open candidate is settled
VadEnd ==
    /\ ~vdone
    /\ vst' = VadFinish(vst, Len(vcls), vcfg)
    /\ vdone' = TRUE
    /\ UNCHANGED <<vcfg, vcls>>
    /\ UNCHANGED sessVars
    /\ UNCHANGED gate
    /\ UNCHANGED soloVars

NextVad == VadFrame \/ VadEnd

SpecVad == InitVad /\ [][NextVad]_vars

\* ------------------------------------------------ the session model: audio sent

\* a run of one content lasting a number of half frames
Run(label, halves) == [l |-> label, h |-> halves]

\* granules of half a frame of this format
GranulesPerHalf(is_int16) == GranulesPerFrame(is_int16) \div 2

\* the content labels of the granules of a sequence of runs
RECURSIVE RunLabels(_, _)
RunLabels(runs, is_int16) ==
    IF runs = << >> THEN << >>
    ELSE [k \in 1..(Head(runs).h * GranulesPerHalf(is_int16)) |-> Head(runs).l]
             \o RunLabels(Tail(runs), is_int16)

\* the bytes of a sequence of runs, the first granule at stream position base,
\* followed by stray bytes
MakeChunk(runs, stray, base, is_int16) ==
    With(RunLabels(runs, is_int16),
         LAMBDA ls :
            [g |-> << >> \o [k \in 1..Len(ls) |-> [l |-> ls[k], p |-> base + k - 1]],
             x |-> stray])

Silence(frames) == << Run("zero", 2 * frames) >>

Speech(frames) == << Run("speech", 2 * frames) >>

\* two utterances with a closing silence between them
Utterances == Speech(ShortFrames) \o Silence(LongFrames) \o Speech(ShortFrames)

Shape(runs, stray) == [runs |-> runs, stray |-> stray]

\* the audio a call may carry: runs of whole frames of one content, two
\* utterances, half a frame of speech, and a run of silence with one byte too
\* many
ChunkShapes ==
    {Shape(Silence(ShortFrames), 0),
     Shape(Speech(ShortFrames), 0),
     Shape(Silence(LongFrames), 0),
     Shape(Utterances, 0),
     Shape(<< Run("noise", 2 * ShortFrames) >>, 0),
     Shape(<< Run("speech", 1) >>, 0),
     Shape(Silence(ShortFrames), 1)}

\* the engine's behaviour during one call, segment by segment
EngineScripts == {<<"two">>, <<"none">>, <<"raise">>}

\* the params a call sends
UserParams(task_id, clear_cache, action) ==
    [task_id |-> task_id, clear_cache |-> clear_cache, action |-> action,
     sample_rate |-> client.sample_rate, is_int16 |-> client.is_int16,
     target_buffer_length |-> client.target_buffer_length,
     hallucinate_threshold |-> client.hallucinate_threshold,
     time_offset |-> client.time_offset, language |-> client.language]

\* ------------------------------------------------ the session model: actions

\* the bookkeeping of a call to execute that ended with outcome o
Record(kind, task_id, audio, clear_cache, action, o) ==
    LET appended_now ==
            IF o.round \/ o.result.status = "buffering" THEN audio.data ELSE EmptyBuf
    IN  /\ audio_cache' = o.audio_cache
        /\ result' = o.result
        /\ call' = [kind |-> kind, task_id |-> task_id, audio_given |-> audio.given,
                    audio |-> audio.data, clear_cache |-> clear_cache,
                    action |-> action, round |-> o.round,
                    engine_calls |-> Len(o.calls)]
        /\ submitted' =
              [sid \in SessionIds |->
                  IF sid # task_id THEN submitted[sid]
                  ELSE IF o.result.status = "cache_cleared" THEN << >>
                  ELSE submitted[sid] \o o.calls]
        /\ streamlen' =
              [sid \in SessionIds |->
                  IF sid # task_id THEN streamlen[sid]
                  ELSE IF o.result.status = "cache_cleared" THEN 0
                  ELSE streamlen[sid] + Len(appended_now.g)]
        /\ trail' =
              [sid \in SessionIds |->
                  IF sid # task_id THEN trail[sid]
                  ELSE IF o.result.status = "cache_cleared" THEN NoTrail
                  ELSE IF o.round
                  THEN [rounds |-> trail[sid].rounds + 1,
                        prev_overlap |-> o.audio_cache[sid].overlap_buffer,
                        appended |-> EmptyBuf,
                        combined |-> o.process_data,
                        expected |-> BufCat(trail[sid].prev_overlap,
                                            BufCat(trail[sid].appended, appended_now)),
                        between |-> 0,
                        waited |-> trail[sid].between,
                        carried |-> BufLen(trail[sid].prev_overlap)]
                  ELSE IF o.result.status = "buffering"
                  THEN [trail[sid] EXCEPT !.appended = BufCat(@, appended_now),
                                          !.between = @ + 1]
                  ELSE trail[sid]]

\* one call to execute, of at most bound calls
Call(bound, kind, task_id, audio, clear_cache, action, script) ==
    /\ ncalls < bound
    /\ ncalls' = ncalls + 1
    /\ Record(kind, task_id, audio, clear_cache, action,
              execute(audio_cache, audio, UserParams(task_id, clear_cache, action),
                      script))
    /\ UNCHANGED client
    /\ UNCHANGED vadVars
    /\ UNCHANGED gate
    /\ UNCHANGED soloVars

Given(data) == [given |-> TRUE, data |-> data]

NoAudio == [given |-> FALSE, data |-> EmptyBuf]

\* the session ids the calls of Spec use
ActiveIds == {"s1"}

\* a call carrying audio; a byte too many is sent only onto whole samples
AppendAudio ==
    \E sid \in ActiveIds, shape \in ChunkShapes, script \in EngineScripts :
        /\ shape.stray + audio_cache[sid].audio_buffer.x <= 1
        /\ Call(MaxCalls, "append", sid,
                Given(MakeChunk(shape.runs, shape.stray, streamlen[sid],
                                client.is_int16)),
                FALSE, "", script)
        /\ UNCHANGED plan

\* a call with no audio tensor, or with an empty one: the end-of-session signal
EmptyAudio ==
    \E sid \in ActiveIds, audio \in {NoAudio, Given(EmptyBuf)}, script \in EngineScripts :
        /\ Call(MaxCalls, "empty", sid, audio, FALSE, "", script)
        /\ UNCHANGED plan

\* a call with clear_cache set, with or without audio
ClearCache ==
    \E sid \in ActiveIds, script \in EngineScripts,
       audio \in {NoAudio, Given(MakeChunk(Silence(1), 0, 0, client.is_int16))} :
        /\ Call(MaxCalls, "clear", sid, audio, TRUE, "", script)
        /\ UNCHANGED plan

\* a call whose params carry action = "finish-task", with or without audio
FinishTask ==
    \E sid \in ActiveIds, script \in EngineScripts :
        \E audio \in {NoAudio,
                      Given(MakeChunk(Silence(1), 0, streamlen[sid], client.is_int16))} :
            /\ Call(MaxCalls, "finish", sid, audio, FALSE, "finish-task", script)
            /\ UNCHANGED plan

\* a call that names no session
NoTaskId ==
    \E script \in EngineScripts :
        /\ Call(MaxCalls, "notask", "",
                Given(MakeChunk(Silence(1), 0, 0, client.is_int16)),
                FALSE, "", script)
        /\ UNCHANGED plan

Init ==
    /\ IdleVad
    /\ InitSession
    /\ client \in ClientConfigs
    /\ plan = NoPlan
    /\ IdleGate
    /\ IdleSolo

Next == AppendAudio \/ EmptyAudio \/ ClearCache \/ FinishTask \/ NoTaskId

Spec == Init /\ [][Next]_vars

\* ------------------------------------------------ the streaming model

\* a long run of appends on one session, ended now and then; the float32
\* client sends a time_offset with its calls
StreamShapes ==
    {Shape(Speech(ShortFrames), 0), Shape(Silence(LongFrames), 0),
     Shape(Utterances, 0)}

StreamAudio ==
    \E shape \in StreamShapes :
        /\ Call(MaxStreamCalls, "append", "s1",
                Given(MakeChunk(shape.runs, shape.stray, streamlen["s1"],
                                client.is_int16)),
                FALSE, "", <<"two">>)
        /\ UNCHANGED plan

StreamEnd ==
    /\ Call(MaxStreamCalls, "empty", "s1", NoAudio, FALSE, "", <<"two">>)
    /\ UNCHANGED plan

InitStream ==
    /\ IdleVad
    /\ InitSession
    /\ client \in {ClientConfig(fmt, target) :
                      fmt \in {Int16At16k, Int16At48k}, target \in Targets}
                  \cup {OffsetClient(ClientConfig(Float32At16k, target)) :
                            target \in Targets}
    /\ plan = NoPlan
    /\ IdleGate
    /\ IdleSolo

NextStream == StreamAudio \/ StreamEnd

SpecStream == InitStream /\ [][NextStream]_vars

\* ------------------------------------------------ the split model

\* one stream delivered whole to session "s1" and in pieces to session "s2",
\* each delivery followed by the end-of-session signal

Pieces == {Speech(ShortFrames), Silence(LongFrames), Silence(ShortFrames)}

Plans == UNION {[1..n -> Pieces] : n \in 1..MaxPieces}

RECURSIVE Joined(_)
Joined(pieces) ==
    IF pieces = << >> THEN << >> ELSE Head(pieces) \o Joined(Tail(pieces))

\* granules of the pieces delivered before the first of these
SplitBase == streamlen["s2"]

SendWhole ==
    /\ plan.phase = "whole"
    /\ Call(2 * MaxPieces + 2, "append", "s1",
            Given(MakeChunk(Joined(plan.pieces), 0, 0, client.is_int16)),
            FALSE, "", <<"one">>)
    /\ plan' = [plan EXCEPT !.phase = "whole_end"]

EndWhole ==
    /\ plan.phase = "whole_end"
    /\ Call(2 * MaxPieces + 2, "empty", "s1", NoAudio, FALSE, "", <<"one">>)
    /\ plan' = [plan EXCEPT !.phase = "split"]

SendPiece ==
    /\ plan.phase = "split"
    /\ plan.pieces # << >>
    /\ Call(2 * MaxPieces + 2, "append", "s2",
            Given(MakeChunk(Head(plan.pieces), 0, SplitBase, client.is_int16)),
            FALSE, "", <<"one">>)
    /\ plan' = [plan EXCEPT !.pieces = Tail(@)]

EndSplit ==
    /\ plan.phase = "split"
    /\ plan.pieces = << >>
    /\ Call(2 * MaxPieces + 2, "empty", "s2", NoAudio, FALSE, "", <<"one">>)
    /\ plan' = [plan EXCEPT !.phase = "done"]

InitSplit ==
    /\ IdleVad
    /\ InitSession
    /\ client \in {ClientConfig(Int16At16k, target) : target \in Targets}
    /\ plan \in {[phase |-> "whole", pieces |-> pieces] : pieces \in Plans}
    /\ IdleGate
    /\ IdleSolo

NextSplit == SendWhole \/ EndWhole \/ SendPiece \/ EndSplit

SpecSplit == InitSplit /\ [][NextSplit]_vars

\* ------------------------------------------------ process_with_vad on its own

\* one call of process_with_vad on a buffer put together from up to
\* MaxGateChunks chunks, for every format and for the thresholds 0 and default

GateFormats == Formats \cup {Int16At48k}

GateThresholds == {0, HALLUCINATE_THRESHOLD}

\* the audio passed: a chunk the sessions may carry, or a run of frames
\* whose samples all have the least int16 value
GateShapes == ChunkShapes \cup {Shape(<< Run("lowest", 2 * ShortFrames) >>, 0)}

\* one more chunk is joined to the buffer that will be passed
GateAppend ==
    /\ ~gate.ran
    /\ gate.chunks < MaxGateChunks
    /\ \E shape \in GateShapes :
          /\ shape.stray + gate.buf.x <= 1
          /\ gate' = [gate EXCEPT
                         !.buf = BufCat(@, MakeChunk(shape.runs, shape.stray,
                                                     Len(gate.buf.g),
                                                     gate.fmt.is_int16)),
                         !.chunks = @ + 1]
    /\ UNCHANGED vadVars
    /\ UNCHANGED sessVars
    /\ UNCHANGED soloVars

\* process_with_vad is called on the buffer, the empty one included
GateRun ==
    /\ ~gate.ran
    /\ gate' = [gate EXCEPT
                   !.ran = TRUE,
                   !.out = process_with_vad(gate.buf, gate.fmt.sample_rate,
                                            gate.fmt.is_int16, gate.threshold)]
    /\ UNCHANGED vadVars
    /\ UNCHANGED sessVars
    /\ UNCHANGED soloVars

InitGate ==
    /\ IdleVad
    /\ InitSession
    /\ client = DefaultClient
    /\ plan = NoPlan
    /\ gate \in {[buf |-> EmptyBuf, fmt |-> fmt, threshold |-> threshold,
                   chunks |-> 0, ran |-> FALSE, out |-> NoGateRun] :
                     fmt \in GateFormats, threshold \in GateThresholds}
    /\ IdleSolo

NextGate == GateAppend \/ GateRun

SpecGate == InitGate /\ [][NextGate]_vars

\* ------------------------------------------------ the failing-engine model

\* appends on one session during which the engine may raise, on the first
\* segment handed to it or on the second

\* three utterances with closing silences between them
ThreeUtterances == Utterances \o Silence(LongFrames) \o Speech(ShortFrames)

FailShapes ==
    {Shape(Speech(ShortFrames), 0), Shape(Utterances, 0), Shape(ThreeUtterances, 0)}

FailScripts == {<<"two">>, <<"raise">>, <<"two", "raise">>}

FailAudio ==
    \E shape \in FailShapes, script \in FailScripts :
        /\ Call(MaxFailCalls, "append", "s1",
                Given(MakeChunk(shape.runs, shape.stray, streamlen["s1"],
                                client.is_int16)),
                FALSE, "", script)
        /\ UNCHANGED plan

FailEnd ==
    \E script \in FailScripts :
        /\ Call(MaxFailCalls, "empty", "s1", NoAudio, FALSE, "", script)
        /\ UNCHANGED plan

InitFail ==
    /\ IdleVad
    /\ InitSession
    /\ client \in {ClientConfig(Int16At16k, target) : target \in Targets}
    /\ plan = NoPlan
    /\ IdleGate
    /\ IdleSolo

NextFail == FailAudio \/ FailEnd

SpecFail == InitFail /\ [][NextFail]_vars

\* ------------------------------------------------ the two-session model

\* whole calls on two session ids in any order: appends, end-of-session
\* signals, cache clears, and calls that name no session

PairShapes == {Shape(Speech(ShortFrames), 0), Shape(Utterances, 0)}

PairAudio ==
    \E sid \in SessionIds, shape \in PairShapes :
        /\ Call(MaxPairCalls, "append", sid,
                Given(MakeChunk(shape.runs, shape.stray, streamlen[sid],
                                client.is_int16)),
                FALSE, "", <<"two">>)
        /\ UNCHANGED plan

PairEnd ==
    \E sid \in SessionIds :
        /\ Call(MaxPairCalls, "empty", sid, NoAudio, FALSE, "", <<"two">>)
        /\ UNCHANGED plan

PairClear ==
    \E sid \in SessionIds :
        /\ Call(MaxPairCalls, "clear", sid, NoAudio, TRUE, "", <<"two">>)
        /\ UNCHANGED plan

PairNoTaskId ==
    /\ Call(MaxPairCalls, "notask", "",
            Given(MakeChunk(Speech(ShortFrames), 0, 0, client.is_int16)),
            FALSE, "", <<"two">>)
    /\ UNCHANGED plan

InitPair ==
    /\ IdleVad
    /\ InitSession
    /\ client \in {ClientConfig(Int16At16k, target) : target \in Targets}
    /\ plan = NoPlan
    /\ IdleGate
    /\ IdleSolo

NextPair == PairAudio \/ PairEnd \/ PairClear \/ PairNoTaskId

SpecPair == InitPair /\ [][NextPair]_vars

\* ------------------------------------------------ the overlapping-calls model

\* calls carrying audio for session "s1", each handled in three steps: the
\* append to audio_buffer, the read of the entry with the readiness test, and
\* the round from process_data on. In mode "free" the steps of two handlers
\* interleave; in mode "serial" a call starts when no other is under way.

RaceShapes == {Shape(Speech(ShortFrames), 0), Shape(Silence(ShortFrames), 0)}

\* the stream positions of the granules of a buffer
PositionSet(b) == {b.g[i].p : i \in 1..Len(b.g)}

\* a handler creates the entry if there is none and appends its audio
RaceAppend ==
    \E t \in Threads, shape \in RaceShapes :
        /\ race.pc[t] = "idle"
        /\ ncalls < MaxRaceCalls
        /\ race.mode = "serial" => \A u \in Threads : race.pc[u] = "idle"
        /\ audio_cache' =
              [audio_cache EXCEPT
                  !["s1"] = Appended(IF @.present THEN @
                                     ELSE NewSession(client.sample_rate,
                                                     client.is_int16),
                                     MakeChunk(shape.runs, shape.stray,
                                               streamlen["s1"], client.is_int16))]
        /\ streamlen' =
              [streamlen EXCEPT
                  !["s1"] = @ + Len(RunLabels(shape.runs, client.is_int16))]
        /\ ncalls' = ncalls + 1
        /\ race' = [race EXCEPT !.pc[t] = "appended"]
        /\ UNCHANGED <<result, call, client, submitted, trail, plan>>
        /\ UNCHANGED <<file, gate, srt>>
        /\ UNCHANGED vadVars

\* the handler reads the entry into its locals and tests the buffer: it
\* answers "buffering", or goes on to the round with what it has read
RaceRead ==
    \E t \in Threads :
        /\ race.pc[t] = "appended"
        /\ LET entry == audio_cache["s1"]
               status == check_buffer_status(entry.audio_buffer, entry.sample_rate,
                                             entry.is_int16,
                                             client.target_buffer_length)
           IN  IF ~status.ready
               THEN /\ race' = [race EXCEPT !.pc[t] = "idle"]
                    /\ result' = Result("buffering", "Audio buffer accumulating",
                                        FALSE, FALSE, << >>)
               ELSE /\ race' = [race EXCEPT !.pc[t] = "read", !.snap[t] = entry,
                                            !.duration[t] = status.duration]
                    /\ UNCHANGED result
        /\ UNCHANGED <<audio_cache, call, client, submitted, streamlen, trail, ncalls,
                       plan>>
        /\ UNCHANGED <<file, gate, srt>>
        /\ UNCHANGED vadVars

\* the handler forms process_data from what it has read, empties audio_buffer
\* in the map and runs the round; processed_length and accumulated_chunks are
\* updated in the map as it is by then
RaceRound ==
    \E t \in Threads :
        /\ race.pc[t] = "read"
        /\ With(ProcessRound(audio_cache, "s1", race.snap[t], race.duration[t],
                             ParsedParams(UserParams("s1", FALSE, "")), <<"two">>),
                LAMBDA o :
                   LET done == o.audio_cache["s1"]
                       live == audio_cache["s1"]
                       read == race.snap[t]
                       current_chunks ==
                           SubSeq(done.accumulated_chunks,
                                  Len(read.accumulated_chunks) + 1,
                                  Len(done.accumulated_chunks))
                   IN  /\ audio_cache' =
                             [audio_cache EXCEPT
                                 !["s1"] =
                                     [done EXCEPT
                                         !.processed_length =
                                             live.processed_length
                                                 + (@ - read.processed_length),
                                         !.accumulated_chunks =
                                             AccumulatedChunks(live.accumulated_chunks,
                                                               current_chunks),
                                         !.language =
                                             IF current_chunks # << >> THEN @
                                             ELSE live.language]]
                       /\ result' = o.result
                       /\ submitted' = [submitted EXCEPT !["s1"] = @ \o o.calls]
                       /\ race' = [race EXCEPT
                                      !.pc[t] = "idle", !.snap[t] = NoSession,
                                      !.duration[t] = 0,
                                      !.seen = @ \cup PositionSet(o.process_data)])
        /\ UNCHANGED <<call, client, streamlen, trail, ncalls, plan>>
        /\ UNCHANGED <<file, gate, srt>>
        /\ UNCHANGED vadVars

InitRace ==
    /\ IdleVad
    /\ InitSession
    /\ client \in {ClientConfig(Int16At16k, target) : target \in Targets}
    /\ plan = NoPlan
    /\ IdleGate
    /\ IdleFile
    /\ IdleSrt
    /\ race \in {[mode |-> mode, pc |-> [t \in Threads |-> "idle"],
                   snap |-> [t \in Threads |-> NoSession],
                   duration |-> [t \in Threads |-> 0], seen |-> {}] :
                     mode \in {"serial", "free"}}

NextRace == RaceAppend \/ RaceRead \/ RaceRound

SpecRace == InitRace /\ [][NextRace]_vars

\* ------------------------------------------------ the speech-to-text model

\* one speech-to-text request: the engine returns up to MaxFileChunks chunks,
\* each starting before it ends, at times relative to wherever the engine
\* counts from, and _execute_file_service writes its lines

FileTimes ==
    {0, TARGET_SAMPLE_RATE \div 5, (2 * TARGET_SAMPLE_RATE) \div 5, TARGET_SAMPLE_RATE,
     2 * TARGET_SAMPLE_RATE}

FileChunks ==
    {[text |-> "a", start_ts |-> span[1], end_ts |-> span[2]] :
        span \in {times \in FileTimes \X FileTimes : times[1] < times[2]}}

\* the engine's result holds one more chunk
FileChunk ==
    /\ ~file.ran
    /\ file.given
    /\ Len(file.chunks) < MaxFileChunks
    /\ \E chunk \in FileChunks : file' = [file EXCEPT !.chunks = Append(@, chunk)]
    /\ UNCHANGED <<race, srt>>
    /\ UNCHANGED vadVars
    /\ UNCHANGED sessVars
    /\ UNCHANGED gate

\* _execute_file_service runs on the audio, or on no audio at all
FileRun ==
    /\ ~file.ran
    /\ file' = [file EXCEPT !.ran = TRUE,
                             !.out = execute_file_service(file.given, file.chunks)]
    /\ UNCHANGED <<race, srt>>
    /\ UNCHANGED vadVars
    /\ UNCHANGED sessVars
    /\ UNCHANGED gate

InitFile ==
    /\ IdleVad
    /\ InitSession
    /\ client = DefaultClient
    /\ plan = NoPlan
    /\ IdleGate
    /\ file \in {[given |-> given, chunks |-> << >>, ran |-> FALSE, out |-> NoFileRun] :
                    given \in BOOLEAN}
    /\ IdleRace
    /\ IdleSrt

NextFile == FileChunk \/ FileRun

SpecFile == InitFile /\ [][NextFile]_vars

\* ------------------------------------------------ the caption model

\* one create_srt_content run: up to MaxSrtChunks chunks in non-decreasing
\* order of time, each starting before it ends, at times from the first
\* second to beyond one day, and a time_offset of nothing or one hour

Second == TARGET_SAMPLE_RATE

Hour == 3600 * Second

Day == 24 * Hour

SrtTimes ==
    {0, Second + 500 * TicksPerMs, 61 * Second, Hour + 61 * Second,
     Day - TicksPerMs, Day, Day + Hour + 61 * Second + TicksPerMs}

SrtOffsets == {0, Hour}

SrtChunks ==
    {[text |-> "a", start_ts |-> span[1], end_ts |-> span[2]] :
        span \in {times \in SrtTimes \X SrtTimes : times[1] < times[2]}}

\* the list to render holds one more chunk, no earlier than the one before
SrtChunk ==
    /\ ~srt.ran
    /\ Len(srt.chunks) < MaxSrtChunks
    /\ \E chunk \in SrtChunks :
        /\ srt.chunks # << >> =>
               /\ srt.chunks[Len(srt.chunks)].start_ts <= chunk.start_ts
               /\ srt.chunks[Len(srt.chunks)].end_ts <= chunk.end_ts
        /\ srt' = [srt EXCEPT !.chunks = Append(@, chunk)]
    /\ UNCHANGED <<file, race>>
    /\ UNCHANGED vadVars
    /\ UNCHANGED sessVars
    /\ UNCHANGED gate

\* create_srt_content renders the list
SrtRun ==
    /\ ~srt.ran
    /\ srt' = [srt EXCEPT !.ran = TRUE,
                           !.out = create_srt_content(srt.chunks, srt.time_offset)]
    /\ UNCHANGED <<file, race>>
    /\ UNCHANGED vadVars
    /\ UNCHANGED sessVars
    /\ UNCHANGED gate

InitSrt ==
    /\ IdleVad
    /\ InitSession
    /\ client = DefaultClient
    /\ plan = NoPlan
    /\ IdleGate
    /\ IdleFile
    /\ IdleRace
    /\ srt \in {[chunks |-> << >>, time_offset |-> offset, ran |-> FALSE, out |-> << >>] :
                   offset \in SrtOffsets}

NextSrt == SrtChunk \/ SrtRun

SpecSrt == InitSrt /\ [][NextSrt]_vars

\* ------------------------------------------------ claims on the segmenter

\* each segment starts at or after the end of the one before it
NonOverlapping(indices) ==
    \A k \in 1..(Len(indices) - 1) : indices[k + 1][1] >= indices[k][2]

\* C9: for every frame classification sequence and every VadConfig the
\* segments emitted by segment_audio are in increasing order and pairwise
\* non-overlapping: each starts at or after the end of the previous one.
C9_NonOverlapAnyConfig == NonOverlapping(vst.indices)

\* C9, the configurations it is true of: whenever speech_pad_frames <=
\* min_silence_frames (the default configuration, 13 <= 16, included) each
\* segment starts at or after the end of the previous one.
C9_NonOverlapPadWithinSilence ==
    vcfg.speech_pad_frames <= vcfg.min_silence_frames
        => NonOverlapping(vst.indices)

\* C10: every segment the automaton emits (the whole-buffer fallback is not
\* one of them) lasts at least min_speech_duration: end_time - start_time >=
\* min_speech_duration_ms.
C10_MinSpeechDuration ==
    \A k \in 1..Len(vst.indices) :
        FrameTimeMs(vst.indices[k][2]) - FrameTimeMs(vst.indices[k][1])
            >= vcfg.min_speech_duration_ms

\* ------------------------------------------------ claims on sessions

\* whole samples of silence, or nothing
AllZero(b) == b.x = 0 /\ \A k \in 1..Len(b.g) : b.g[k].l = "zero"

C1_Step(sid) ==
    LET entry == audio_cache[sid]
        pending == calculate_pcm_duration(BufCat(entry.audio_buffer, call'.audio),
                                          TARGET_SAMPLE_RATE, TRUE)
    IN  (/\ call'.kind = "append"
         /\ call'.task_id = sid
         /\ BufLen(call'.audio) > 0
         /\ AllZero(call'.audio)
         /\ client.is_int16
         /\ client.sample_rate = TARGET_SAMPLE_RATE
         /\ client.hallucinate_threshold = HALLUCINATE_THRESHOLD
         /\ AllZero(entry.audio_buffer)
         /\ AllZero(entry.overlap_buffer))
        => IF pending < client.target_buffer_length
           THEN result'.status = "buffering"
           ELSE /\ result'.status = "no_speech_detected"
                /\ audio_cache'[sid].accumulated_chunks = entry.accumulated_chunks
                /\ audio_cache'[sid].processed_length = entry.processed_length + pending

\* C1: on an int16 16 kHz session with threshold 100 that holds only whole
\* samples of silence, a call appending all-zero audio returns "buffering"
\* while the pending duration after the append is below target_buffer_length;
\* the call after which it is at least target_buffer_length returns
\* "no_speech_detected", adds no chunk to accumulated_chunks and raises
\* processed_length by exactly the pending duration.
C1_ZeroAudioBuffersThenNoSpeech == [][\A sid \in SessionIds : C1_Step(sid)]_vars

\* three calls of silence against a target of their total duration: buffering,
\* buffering, then the no-speech round that accounts for all of it
C1_Witness ==
    /\ ncalls = 3
    /\ call.kind = "append"
    /\ BufLen(call.audio) > 0
    /\ AllZero(call.audio)
    /\ client.is_int16
    /\ client.sample_rate = TARGET_SAMPLE_RATE
    /\ result.status = "no_speech_detected"
    /\ trail["s1"].rounds = 1
    /\ trail["s1"].waited = 2
    /\ audio_cache["s1"].accumulated_chunks = << >>
    /\ audio_cache["s1"].processed_length = client.target_buffer_length

\* C2: a call with clear_cache set for a session id that is not in
\* audio_cache reports "cache_cleared" and leaves audio_cache as it was (no
\* entry is created), whether or not the call carries audio.
C2_ClearUnknownIsNoOp ==
    [][\A sid \in SessionIds :
          (call'.kind = "clear" /\ call'.task_id = sid /\ ~audio_cache[sid].present)
              => (result'.status = "cache_cleared" /\ audio_cache' = audio_cache)]_vars

\* the session exists and holds no audio and no chunk
EmptySession(entry) ==
    /\ entry.present
    /\ BufLen(entry.overlap_buffer) = 0
    /\ BufLen(entry.audio_buffer) = 0
    /\ entry.accumulated_chunks = << >>

\* C3: the end-of-session signal (a call without audio) on an existing session
\* whose overlap_buffer, audio_buffer and accumulated_chunks are empty returns
\* status "completed" with empty content and is_final true, calls the engine
\* zero times and leaves the session's entry unchanged.
C3_EmptyFinalize ==
    [][\A sid \in SessionIds :
          (/\ call'.kind \in {"empty", "finish"}
           /\ BufLen(call'.audio) = 0
           /\ call'.task_id = sid
           /\ EmptySession(audio_cache[sid]))
              => (/\ result'.status = "completed"
                  /\ result'.content = << >>
                  /\ result'.is_final
                  /\ call'.engine_calls = 0
                  /\ audio_cache' = audio_cache)]_vars

\* an empty session has just been finalized
C3_Witness ==
    /\ call.kind = "empty"
    /\ call.task_id = "s1"
    /\ EmptySession(audio_cache["s1"])
    /\ result.status = "completed"
    /\ result.is_final

\* C4: for every session and every two consecutive ready rounds, with any
\* number of buffering calls between them, the combined buffer of the later
\* round is the overlap_buffer stored at the end of the earlier one followed by
\* exactly the bytes appended since, in arrival order.
C4_OverlapContinuity ==
    \A sid \in SessionIds :
        trail[sid].rounds >= 2 => trail[sid].combined = trail[sid].expected

\* a second round that was handed a non-empty overlap and audio that arrived
\* over several calls
C4_Witness ==
    /\ trail["s1"].rounds >= 2
    /\ trail["s1"].carried > 0
    /\ trail["s1"].waited >= 1
    /\ BufLen(trail["s1"].combined) > trail["s1"].carried

\* C5: after every call the start_ts values of a session's accumulated_chunks
\* are non-decreasing in list order (time_offset constant, the engine's chunks
\* in order with timestamps inside their segment).
C5_StartTsMonotonic ==
    \A sid \in SessionIds :
        \A k \in 1..(Len(audio_cache[sid].accumulated_chunks) - 1) :
            audio_cache[sid].accumulated_chunks[k].start_ts
                <= audio_cache[sid].accumulated_chunks[k + 1].start_ts

\* a round that committed one segment onto chunks of an earlier round, later in
\* time than they are
C5_Witness ==
    /\ call.round
    /\ call.engine_calls = 1
    /\ result.status = "processing"
    /\ Len(audio_cache["s1"].accumulated_chunks) >= 4
    /\ \E k \in 1..(Len(audio_cache["s1"].accumulated_chunks) - 1) :
          audio_cache["s1"].accumulated_chunks[k].start_ts
              < audio_cache["s1"].accumulated_chunks[k + 1].start_ts

\* the (absolute start, absolute end) spans handed to the engine
Spans(calls) == {<<calls[k].abs_start, calls[k].abs_end>> : k \in 1..Len(calls)}

\* C6: a stream delivered to a fresh session as one chunk, and the same bytes
\* delivered to a fresh session as a sequence of smaller chunks, each delivery
\* followed by the end-of-session signal, hand the engine the same set of
\* (absolute start, absolute end) spans.
C6_SplitInvariance ==
    plan.phase = "done" => Spans(submitted["s1"]) = Spans(submitted["s2"])

\* the session time, in ticks, of the first byte a session still holds: of
\* overlap_buffer ++ audio_buffer, or of the end of the stream when it holds
\* nothing
HeldFrom(sid) ==
    LET entry == audio_cache[sid]
        held == entry.overlap_buffer.g \o entry.audio_buffer.g
        first == IF held # << >> THEN held[1].p ELSE streamlen[sid]
    IN  SamplesToTicks(first * SamplesPerGranule(entry.is_int16), entry.sample_rate)

\* C7: between calls, processed_length of every session equals the session
\* time of the first byte of overlap_buffer ++ audio_buffer, that is the
\* duration of the appended audio that precedes that byte.
C7_ProcessedIsCutPoint ==
    \A sid \in SessionIds :
        audio_cache[sid].present => audio_cache[sid].processed_length = HeldFrom(sid)

\* C8: a call whose audio makes the pending byte length not a multiple of the
\* session's sample width returns status "error" and leaves the session's
\* entry exactly as it was before the call.
C8_MisalignedFailsUntouched ==
    [][\A sid \in SessionIds :
          (/\ call'.kind = "append"
           /\ call'.task_id = sid
           /\ BufLen(BufCat(audio_cache[sid].audio_buffer, call'.audio))
                  % SampleWidth(client.is_int16) # 0)
              => (result'.status = "error" /\ audio_cache'[sid] = audio_cache[sid])]_vars

\* ------------------------------------------------ claims on process_with_vad

\* C11: every segment process_with_vad returns has start_time < end_time, for
\* every input buffer, the empty buffer and a buffer shorter than one frame
\* included, and for the whole-buffer segment returned when no speech is found
\* or the energy gate fails.
C11_SegmentsStartBeforeEnd ==
    (gate.ran /\ ~gate.out.raised)
        => \A k \in 1..Len(gate.out.segments) :
              gate.out.segments[k].start < gate.out.segments[k].end

\* C12: for a threshold >= 0 a buffer whose samples are all zero is returned by
\* process_with_vad without any of its frames being handed to process_frame.
C12_ZeroNeverClassified ==
    (gate.ran /\ AllZero(gate.buf))
        => (~gate.out.raised /\ gate.out.frames = 0)

\* several frames of silence went through the gate at threshold 0
C12_Witness ==
    /\ gate.ran
    /\ AllZero(gate.buf)
    /\ Len(gate.buf.g) >= 2 * ShortFrames
    /\ gate.threshold = 0
    /\ gate.out.frames = 0
    /\ Len(gate.out.segments) = 1

\* ------------------------------------------------ claims on the session record

\* a is the beginning of b
IsPrefix(a, b) == Len(a) <= Len(b) /\ SubSeq(b, 1, Len(a)) = a

\* the call just made is the end-of-session signal: no audio with it
FinalizeCall(c) == c.kind \in {"empty", "finish"} /\ BufLen(c.audio) = 0

\* C13: every call on an existing session other than a cache-clear request
\* (buffering, ready round, failed round, finalize) leaves the session in
\* place with accumulated_chunks extended at its end only (the list before the
\* call is a prefix of the list after it) and processed_length not lowered.
C13_SessionOnlyGrows ==
    [][\A sid \in SessionIds :
          (call'.task_id = sid /\ call'.kind # "clear" /\ audio_cache[sid].present)
              => (/\ audio_cache'[sid].present
                  /\ IsPrefix(audio_cache[sid].accumulated_chunks,
                              audio_cache'[sid].accumulated_chunks)
                  /\ audio_cache'[sid].processed_length
                         >= audio_cache[sid].processed_length)]_vars

\* a third call whose round added chunks after those of an earlier round
C13_Witness ==
    /\ ncalls = 3
    /\ call.kind = "append"
    /\ call.round
    /\ result.status = "processing"
    /\ trail["s1"].rounds >= 2
    /\ Len(audio_cache["s1"].accumulated_chunks) >= 4
    /\ audio_cache["s1"].processed_length > 0

C15_ClearDeletesSession ==
    [][\A sid \in SessionIds :
          LET after == audio_cache'[sid]
              fresh == NewSession(client.sample_rate, client.is_int16)
          IN  /\ (call'.kind = "clear" /\ call'.task_id = sid
                      /\ audio_cache[sid].present)
                    => (/\ result'.status = "cache_cleared"
                        /\ after = NoSession
                        /\ ~call'.round
                        /\ call'.engine_calls = 0)
              /\ (/\ call.kind = "clear" /\ call.task_id = sid
                  /\ result.status = "cache_cleared"
                  /\ call'.kind = "append" /\ call'.task_id = sid)
                    => (/\ after.present
                        /\ result'.status = "buffering"
                              => after = [fresh EXCEPT !.audio_buffer = call'.audio]
                        /\ call'.round
                              => (/\ trail'[sid].combined = call'.audio
                                  /\ after.processed_length
                                         <= calculate_pcm_duration(
                                                call'.audio, fresh.sample_rate,
                                                fresh.is_int16)))]_vars

\* a clear_cache call that carried audio has just deleted a session
C15_Witness ==
    /\ ncalls >= 2
    /\ call.kind = "clear"
    /\ call.task_id = "s1"
    /\ call.audio_given
    /\ BufLen(call.audio) > 0
    /\ result.status = "cache_cleared"
    /\ ~audio_cache["s1"].present

Handed(calls, k) == {calls[k].audio[a] : a \in 1..Len(calls[k].audio)}

\* the call just made ran a ready round to its end
RoundDone(c, r) == c.round /\ r.status \in {"processing", "no_speech_detected"}

\* C17: after a ready round the session's audio_buffer is empty, and over the
\* appends and ready rounds of a session no piece of appended audio is handed
\* to the engine twice: the calls made by rounds carry pairwise disjoint
\* audio, each without repetition.
C17_PendingClearedSubmittedOnce ==
    \A sid \in SessionIds :
        LET calls == submitted[sid]
        IN  /\ (call.round /\ call.task_id = sid)
                  => audio_cache[sid].audio_buffer = EmptyBuf
            /\ \A i \in 1..Len(calls) :
                  ~calls[i].final
                      => (/\ Cardinality(Handed(calls, i)) = Len(calls[i].audio)
                          /\ \A j \in (i + 1)..Len(calls) :
                                ~calls[j].final
                                    => Handed(calls, i) \cap Handed(calls, j) = {})

\* a round that was handed withheld audio and committed a segment, after an
\* earlier round had committed one
C17_Witness ==
    /\ call.round
    /\ call.engine_calls >= 1
    /\ trail["s1"].rounds >= 2
    /\ trail["s1"].carried > 0
    /\ audio_cache["s1"].audio_buffer = EmptyBuf
    /\ \E i, j \in 1..Len(submitted["s1"]) :
          /\ i < j
          /\ ~submitted["s1"][i].final
          /\ ~submitted["s1"][j].final

\* C18: in a ready round the last segment returned by segmentation is not
\* handed to the engine, and the new overlap_buffer is the suffix of the
\* combined buffer that starts at the first byte of that segment (start frame *
\* frame size * sample width), for every sample rate and format.
C18_OverlapIsWithheldSegment ==
    \A sid \in SessionIds :
        (RoundDone(call, result) /\ call.task_id = sid)
            => LET entry == audio_cache[sid]
                   segs == process_with_vad(trail[sid].combined, entry.sample_rate,
                                            entry.is_int16,
                                            client.hallucinate_threshold).segments
                   last == segs[Len(segs)]
                   start_frame == last.start \div FrameTicks(1)
                   first_byte == start_frame * VAD_FRAME_SIZE
                                     * SampleWidth(entry.is_int16)
                   calls == submitted[sid]
               IN  /\ call.engine_calls = Len(segs) - 1
                   /\ \A k \in (Len(calls) - call.engine_calls + 1)..Len(calls) :
                         calls[k].audio # Positions(last.audio)
                   /\ entry.overlap_buffer = BufFrom(trail[sid].combined, first_byte)

\* C19: a ready round that withholds a segment raises processed_length by
\* exactly that segment's start time in the combined buffer, a start time of 0
\* included.
C19_ProcessedAdvancesByWithheldStart ==
    [][\A sid \in SessionIds :
          (RoundDone(call', result') /\ call'.task_id = sid)
              => audio_cache'[sid].processed_length
                     = audio_cache[sid].processed_length
                           + audio_cache'[sid].last_segment_start_time]_vars

\* C20: the end-of-session signal on a session holding audio segments
\* overlap_buffer followed by audio_buffer as one buffer and hands every
\* segment of it to the engine, in order, none withheld, whatever the pending
\* duration.
C20_FinalizeSubmitsAll ==
    [][\A sid \in SessionIds :
          LET entry == audio_cache[sid]
              buffer == BufCat(entry.overlap_buffer, entry.audio_buffer)
              segs == process_with_vad(buffer, entry.sample_rate, entry.is_int16,
                                       HALLUCINATE_THRESHOLD).segments
              made == SubSeq(submitted'[sid], Len(submitted[sid]) + 1,
                             Len(submitted'[sid]))
          IN  (/\ FinalizeCall(call')
               /\ call'.task_id = sid
               /\ entry.present
               /\ BufLen(buffer) > 0)
                  => (/\ Len(made) = Len(segs)
                      /\ \A k \in 1..Len(segs) :
                            /\ made[k].final
                            /\ made[k].audio = Positions(segs[k].audio))]_vars

\* a finalize that found withheld audio and a pending buffer shorter than the
\* target, and handed two segments to the engine
C20_Witness ==
    /\ FinalizeCall(call)
    /\ call.task_id = "s1"
    /\ result.status = "completed"
    /\ call.engine_calls >= 2
    /\ BufLen(audio_cache["s1"].overlap_buffer) > 0
    /\ BufLen(audio_cache["s1"].audio_buffer) > 0
    /\ calculate_pcm_duration(audio_cache["s1"].audio_buffer,
                              audio_cache["s1"].sample_rate,
                              audio_cache["s1"].is_int16)
           < client.target_buffer_length


\* ------------------------------------------------ claims on finalize and rounds

\* the stream positions two engine calls have in common
Shared(a, b) == {a.audio[i] : i \in 1..Len(a.audio)} \cap {b.audio[i] : i \in 1..Len(b.audio)}

\* the session is quiescent after the finalize just made: nothing pending and
\* no overlap are left, the next finalize hands nothing to the engine, and no
\* later round hands over audio a finalize has handed over
C21_Step(sid) ==
    /\ (FinalizeCall(call) /\ call.task_id = sid /\ result.is_final)
          => /\ BufLen(audio_cache[sid].audio_buffer) = 0
             /\ BufLen(audio_cache[sid].overlap_buffer) = 0
             /\ (ncalls' = ncalls + 1 /\ FinalizeCall(call') /\ call'.task_id = sid)
                   => call'.engine_calls = 0
    /\ (ncalls' = ncalls + 1 /\ call'.round /\ call'.task_id = sid)
          => \A i \in 1..Len(submitted[sid]) :
                \A j \in (Len(submitted[sid]) + 1)..Len(submitted'[sid]) :
                    submitted[sid][i].final
                        => Shared(submitted[sid][i], submitted'[sid][j]) = {}

\* C21: after a forced finalize the session is quiescent: pending_buffer and
\* overlap_buffer are empty, a repeated finalize submits no audio, and audio
\* transcribed by the finalize is not submitted again by any later round
C21_FinalizeLeavesQuiescent == [][C21_Step("s1")]_vars


\* the engine's chunks for the segments from the k-th on, each stamped with
\* base + segment.start + its own relative start and end
RECURSIVE StampedChunks(_, _, _, _)
StampedChunks(segs, k, base, fmt) ==
    IF k > Len(segs) THEN << >>
    ELSE
    LET dur == SamplesToTicks(Len(segs[k].audio) * SamplesPerGranule(fmt.is_int16),
                              fmt.sample_rate)
        reply == EngineChunks("two", dur)
    IN  [j \in 1..Len(reply) |->
            [text |-> reply[j].text,
             start_ts |-> base + segs[k].start + reply[j].start_ts,
             end_ts |-> base + segs[k].start + reply[j].end_ts]]
            \o StampedChunks(segs, k + 1, base, fmt)

\* the chunks the round just made has appended are those of the segments before
\* the withheld one, stamped from processed_length as it was before the round
C22_Step(sid) ==
    (ncalls' = ncalls + 1 /\ call'.task_id = sid /\ RoundDone(call', result'))
       => LET fmt == [sample_rate |-> client.sample_rate, is_int16 |-> client.is_int16]
              before == IF audio_cache[sid].present THEN audio_cache[sid]
                        ELSE NewSession(fmt.sample_rate, fmt.is_int16)
              after == audio_cache'[sid].accumulated_chunks
          IN  With(process_with_vad(trail'[sid].combined, fmt.sample_rate,
                                    fmt.is_int16, client.hallucinate_threshold),
                   LAMBDA v :
                      SubSeq(after, Len(before.accumulated_chunks) + 1, Len(after))
                          = StampedChunks(SubSeq(v.segments, 1, Len(v.segments) - 1), 1,
                                          before.processed_length + client.time_offset,
                                          fmt))

\* C22: in every non-finalize round each chunk appended to accumulated_chunks
\* has start_ts = P + time_offset + segment.start + chunk.relative_start and
\* end_ts = P + time_offset + segment.start + chunk.relative_end, P being
\* processed_duration as it was before the round
C22_RoundChunksStamped == [][C22_Step("s1")]_vars

\* a second or later round of a client that sends a time_offset has appended
\* chunks of a segment that starts after the session's first second
C22_Witness ==
    /\ call.round /\ result.status = "processing"
    /\ client.time_offset > 0
    /\ trail["s1"].rounds >= 2
    /\ LET chunks == audio_cache["s1"].accumulated_chunks
       IN  chunks[Len(chunks)].start_ts > client.time_offset + TARGET_SAMPLE_RATE


\* milliseconds of the fields format_timedelta has written
FieldsMs(f) == ((f[1] * 60 + f[2]) * 60 + f[3]) * 1000 + f[4]

\* C23: the chunks a finalize produces carry session-absolute timestamps,
\* processed_duration before the round + segment.start + the chunk's relative
\* start and end, so they are not earlier than the chunks already accumulated
C23_FinalizeChunksAbsolute ==
    (FinalizeCall(call) /\ call.task_id = "s1" /\ result.is_final
        /\ call.engine_calls > 0)
       => LET entry == audio_cache["s1"]
              fmt == [sample_rate |-> entry.sample_rate, is_int16 |-> entry.is_int16]
          IN  With(process_with_vad(RemainingAudio(entry), fmt.sample_rate,
                                    fmt.is_int16, HALLUCINATE_THRESHOLD),
                   LAMBDA v :
                      /\ result.content
                            = create_srt_content(
                                  StampedChunks(v.segments, 1, entry.processed_length,
                                                fmt), 0)
                      /\ \A i \in 1..Len(result.content) :
                            \A j \in 1..Len(entry.accumulated_chunks) :
                                FieldsMs(result.content[i].start)
                                    >= entry.accumulated_chunks[j].start_ts
                                           \div TicksPerMs)


\* C24: every result of a round that produced chunks, and every finalize
\* result, carries the rendering of the entire accumulated chunk list, the
\* chunks of earlier rounds followed by those of this round
C24_ResultRendersWholeList ==
    LET whole == create_srt_content(audio_cache["s1"].accumulated_chunks, 0) IN
    /\ (call.task_id = "s1" /\ call.round /\ result.status = "processing")
          => result.content = whole
    /\ (FinalizeCall(call) /\ call.task_id = "s1" /\ result.is_final)
          => IsPrefix(whole, result.content)


\* ------------------------------------------------ claims on the speech-to-text service

\* C25: in single-shot mode, whenever a chunk's relative start is more than
\* 0.5 s before the previous chunk's relative end the accumulated offset is
\* raised to equal the previous chunk's absolute end, so absolute start times
\* are non-decreasing across the output
C25_FileStartsNonDecreasing ==
    (file.ran /\ ~file.out.raised)
       => \A k \in 2..Len(file.chunks) :
             /\ file.chunks[k].start_ts < file.chunks[k - 1].end_ts - JumpTolerance
                   => file.out.lines[k].time_offset = file.out.lines[k - 1].end
             /\ file.out.lines[k].start >= file.out.lines[k - 1].start


\* ------------------------------------------------ claims on failures

\* the call just made ran a round in which the engine raised
EngineRaised(sid) ==
    /\ ncalls' = ncalls + 1
    /\ call'.task_id = sid
    /\ call'.round
    /\ Len(submitted'[sid]) > Len(submitted[sid])
    /\ submitted'[sid][Len(submitted'[sid])].raised

\* such a call answers "error", leaves nothing pending and leaves the chunk
\* list and processed_length as they were
C26_Step(sid) ==
    EngineRaised(sid)
       => LET before == IF audio_cache[sid].present THEN audio_cache[sid]
                        ELSE NewSession(client.sample_rate, client.is_int16)
              after == audio_cache'[sid]
          IN  /\ result'.status = "error"
              /\ after.present
              /\ BufLen(after.audio_buffer) = 0
              /\ after.accumulated_chunks = before.accumulated_chunks
              /\ after.processed_length = before.processed_length

\* C26: if the engine raises during a round the call returns status 'error'
\* and no exception propagates; pending_buffer stays empty, and
\* accumulated_chunks and processed_duration are exactly as before the round,
\* even when earlier segments of the same round had been transcribed
C26_EngineFailureKeepsState == [][C26_Step("s1")]_vars

\* the engine has raised on the second segment of a round, after the first
\* was transcribed, in a session that had chunks and processed audio already
C26_Witness ==
    /\ call.round /\ result.status = "error"
    /\ call.engine_calls = 2
    /\ submitted["s1"][Len(submitted["s1"])].raised
    /\ ~submitted["s1"][Len(submitted["s1"]) - 1].raised
    /\ audio_cache["s1"].accumulated_chunks # << >>
    /\ audio_cache["s1"].processed_length > 0


\* a call that names no session answers "error" and leaves audio_cache as it
\* was
C27_Step ==
    (ncalls' = ncalls + 1 /\ call'.task_id = "")
       => /\ result'.status = "error"
          /\ ~result'.is_final
          /\ audio_cache' = audio_cache

\* C27: a streaming call with an empty or missing task_id yields status 'error'
\* for that call only: no exception leaves execute, no SessionState is
\* created, and the existing ones are unchanged
C27_NoTaskIdIsErrorOnly == [][C27_Step]_vars

\* a call without task_id, carrying audio, was refused while a session with
\* pending or withheld audio existed
C27_Witness ==
    /\ call.kind = "notask" /\ call.task_id = "" /\ BufLen(call.audio) > 0
    /\ result.status = "error"
    /\ \E sid \in SessionIds :
          /\ audio_cache[sid].present
          /\ BufLen(RemainingAudio(audio_cache[sid])) > 0

\* ------------------------------------------------ claims on several sessions

\* the call just made on one id has done to that id's entry, and answered,
\* what it does when no other id is in the map, and has left the other
\* entries alone
C28_Step ==
    (ncalls' = ncalls + 1 /\ call'.task_id \in SessionIds)
       => LET sid == call'.task_id
              alone == [s \in SessionIds |->
                           IF s = sid THEN audio_cache[s] ELSE NoSession]
          IN  With(execute(alone, [given |-> call'.audio_given, data |-> call'.audio],
                           UserParams(sid, call'.clear_cache, call'.action),
                           <<"two">>),
                   LAMBDA o :
                      /\ audio_cache'[sid] = o.audio_cache[sid]
                      /\ result' = o.result
                      /\ \A other \in SessionIds \ {sid} :
                            audio_cache'[other] = audio_cache[other])

\* C28: calls on distinct session ids are independent: whatever the order of
\* whole calls, each session's state and each call's result are those of that
\* session's calls run alone, and a call on one id never changes the state
\* stored under another id
C28_SessionsIndependent == [][C28_Step]_vars

\* a call on "s1" has run a round while "s2" held a different, non-empty state
C28_Witness ==
    /\ call.task_id = "s1" /\ call.round
    /\ audio_cache["s1"].present /\ audio_cache["s2"].present
    /\ trail["s2"].rounds >= 1
    /\ audio_cache["s2"].accumulated_chunks # << >>
    /\ audio_cache["s1"] # audio_cache["s2"]


\* ------------------------------------------------ claims on overlapping calls

\* the positions some buffer of the session still holds: the pending bytes,
\* the overlap, and what a handler has read for the round it is about to run
HeldPositions ==
    PositionSet(audio_cache["s1"].audio_buffer)
        \cup PositionSet(audio_cache["s1"].overlap_buffer)
        \cup UNION {PositionSet(race.snap[t].audio_buffer) :
                       t \in {u \in Threads : race.pc[u] = "read"}}

\* the appended positions that were in no combined buffer and are held nowhere
LostAudio ==
    {p \in 0..(streamlen["s1"] - 1) : p \notin race.seen /\ p \notin HeldPositions}

\* with serialized calls nothing is ever lost; when a handler empties
\* audio_buffer, what another call appended after that handler had read the
\* pending bytes is in neither the round's combined buffer nor audio_buffer
\* afterwards, and is lost unless a third party has read it meanwhile
C29_Step ==
    /\ race'.mode = "serial" => LostAudio' = {}
    /\ \A t \in Threads :
          (race.pc[t] = "read" /\ race'.pc[t] = "idle")
             => LET late == PositionSet(audio_cache["s1"].audio_buffer)
                                \ PositionSet(race.snap[t].audio_buffer)
                IN  /\ late \cap PositionSet(audio_cache'["s1"].audio_buffer) = {}
                    /\ late \cap race'.seen = {}
                    /\ late \subseteq (LostAudio' \cup HeldPositions')

\* C29: if two calls on the same session id interleave so that the second
\* appends after the first has read pending_buffer but before the first clears
\* it, the second call's bytes are erased without being segmented or retained;
\* with calls serialized no appended byte is erased before it has been part of
\* a combined buffer
C29_InterleavedAppendLost == [][C29_Step]_vars

\* two calls have overlapped, no handler is under way any more, and audio
\* the session was sent is lost
C29_Witness ==
    /\ race.mode = "free"
    /\ \A t \in Threads : race.pc[t] = "idle"
    /\ LostAudio # {}


\* ------------------------------------------------ claims on the overlap

\* C30: after every round overlap_buffer holds at most the audio of the single
\* withheld segment, its length at most (end - start) of that segment in
\* samples times the sample width, so it does not keep growing from round to
\* round, in particular over successive rounds that contain no speech
C30_OverlapBounded ==
    (call.task_id = "s1" /\ RoundDone(call, result))
       => LET entry == audio_cache["s1"] IN
          With(process_with_vad(trail["s1"].combined, entry.sample_rate,
                                entry.is_int16, client.hallucinate_threshold),
               LAMBDA v :
                  LET last == v.segments[Len(v.segments)] IN
                  /\ BufLen(entry.overlap_buffer) * TicksPerMs
                        <= (last.end - last.start) * (entry.sample_rate \div 1000)
                               * SampleWidth(entry.is_int16)
                  /\ (trail["s1"].rounds >= 2 /\ AllZero(trail["s1"].combined))
                        => BufLen(entry.overlap_buffer) <= trail["s1"].carried)


\* ---------------------------------------------------------------- C31

\* the HH, MM, SS, mmm fields that denote a time of t ticks, hours uncapped
FieldsOf(t) ==
    LET seconds == t \div Second
    IN  <<seconds \div 3600, (seconds % 3600) \div 60, seconds % 60,
          (t % Second) \div TicksPerMs>>

\* the time in milliseconds a HH:MM:SS,mmm field denotes
FieldMs(f) == ((f[1] * 60 + f[2]) * 60 + f[3]) * 1000 + f[4]

\* C31: create_srt_content renders n chunks as n entries in list order, entry
\* i numbered i; every start and end field denotes the chunk's time plus the
\* offset, with hours = floor(t / 3600) also for times of 24 hours or more;
\* so chunk times that do not decrease render as caption times that do not
\* decrease
C31_CaptionsDenoteChunkTimes ==
    srt.ran =>
        /\ Len(srt.out) = Len(srt.chunks)
        /\ \A i \in 1..Len(srt.out) :
            /\ srt.out[i].index = i
            /\ srt.out[i].start = FieldsOf(srt.chunks[i].start_ts + srt.time_offset)
            /\ srt.out[i].end = FieldsOf(srt.chunks[i].end_ts + srt.time_offset)
        /\ \A i \in 1..(Len(srt.out) - 1) :
            /\ FieldMs(srt.out[i].start) <= FieldMs(srt.out[i + 1].start)
            /\ FieldMs(srt.out[i].end) <= FieldMs(srt.out[i + 1].end)

\* the part of C31 that holds: count, order and numbering, and the fields of
\* every time below 24 hours
C31_CaptionsBelowOneDay ==
    srt.ran =>
        /\ Len(srt.out) = Len(srt.chunks)
        /\ \A i \in 1..Len(srt.out) :
            /\ srt.out[i].index = i
            /\ srt.chunks[i].start_ts + srt.time_offset < Day =>
                  srt.out[i].start = FieldsOf(srt.chunks[i].start_ts + srt.time_offset)
            /\ srt.chunks[i].end_ts + srt.time_offset < Day =>
                  srt.out[i].end = FieldsOf(srt.chunks[i].end_ts + srt.time_offset)


\* ---------------------------------------------------------------- C32

\* the loop body has just run on one more frame
FrameSeen == Len(vcls') = Len(vcls) + 1

\* C32: whenever the segmenter is outside speech and frame i is classified
\* speech, it is in speech afterwards with speech_start_frame =
\* max(0, i - speech_pad_frames), speech_frame_count = 1 and silence_frames
\* = 0, whatever segments were emitted and whatever candidates were dropped
\* before; nothing is emitted at that frame
C32_Step ==
    (FrameSeen /\ ~vst.is_speech /\ vcls'[Len(vcls')]) =>
        /\ vst'.is_speech
        /\ vst'.speech_start_frame = Max(0, Len(vcls) - vcfg.speech_pad_frames)
        /\ vst'.speech_frame_count = 1
        /\ vst'.silence_frames = 0
        /\ vst'.indices = vst.indices

C32_SpeechEntry == [][C32_Step]_vars

\* a candidate has just opened, and its padded start lies before the end of
\* the segment emitted last
C32_Witness ==
    /\ ~vdone
    /\ vst.is_speech
    /\ vst.speech_frame_count = 1
    /\ vst.indices # << >>
    /\ vst.speech_start_frame < vst.indices[Len(vst.indices)][2]
    /\ vst.speech_start_frame = Len(vcls) - 1 - vcfg.speech_pad_frames

\* ---------------------------------------------------------------- C33

\* C33: inside speech, a speech frame adds one to speech_frame_count and
\* sets silence_frames to 0, a non-speech frame adds one to silence_frames;
\* at the frame i where silence_frames has reached min_silence_frames the
\* candidate is emitted iff speech_frame_count >= min_speech_frames, ending
\* at i - silence_frames + 1, which is one past its last speech frame, and
\* otherwise dropped; either way the segmenter is outside speech with both
\* counters 0
C33_Step ==
    (FrameSeen /\ vst.is_speech) =>
        LET i == Len(vcls)
            sp == vcls'[Len(vcls')]
            cnt == IF sp THEN vst.speech_frame_count + 1 ELSE vst.speech_frame_count
            sil == IF sp THEN 0 ELSE vst.silence_frames + 1
            end == i - sil + 1
        IN  IF sil >= vcfg.min_silence_frames
            THEN /\ ~vst'.is_speech
                 /\ vst'.speech_frame_count = 0
                 /\ vst'.silence_frames = 0
                 /\ IF cnt >= vcfg.min_speech_frames
                    THEN /\ vst'.indices =
                                Append(vst.indices, <<vst.speech_start_frame, end>>)
                         /\ vcls'[end]
                         /\ \A k \in (end + 1)..(i + 1) : ~vcls'[k]
                    ELSE vst'.indices = vst.indices
            ELSE /\ vst'.is_speech
                 /\ vst'.speech_frame_count = cnt
                 /\ vst'.silence_frames = sil
                 /\ vst'.indices = vst.indices

C33_SpeechExit == [][C33_Step]_vars

\* a candidate has just been emitted at the frame that completed its closing
\* silence, after an earlier candidate that was too short had been dropped
C33_Witness ==
    /\ ~vdone
    /\ ~vst.is_speech
    /\ vcfg.min_silence_frames >= 1
    /\ vcfg.min_speech_frames >= 2
    /\ Len(vst.indices) = 1
    /\ vst.indices[1][2] = Len(vcls) - vcfg.min_silence_frames
    /\ \E k \in 1..vst.indices[1][1] : vcls[k]


\* ------------------------------------------------ claims on segment_audio

\* process_with_vad was called and its buffer went through the energy gate
\* to segment_audio
Segmented == gate.ran /\ ~gate.out.raised /\ gate.out.loud

\* whole frames of the buffer passed
GateFrameCount ==
    (Len(gate.buf.g) * SamplesPerGranule(gate.fmt.is_int16)) \div VAD_FRAME_SIZE

\* the primitive's answers for the whole frames of the buffer passed
GatePrimitive ==
    LET gpf == GranulesPerFrame(gate.fmt.is_int16)
    IN  [i \in 1..GateFrameCount |->
            VadPrimitive(SubSeq(gate.buf.g, (i - 1) * gpf + 1, i * gpf),
                         gate.fmt.sample_rate)]

\* the classification in which a frame is speech iff the primitive said so
GateClasses == [i \in 1..GateFrameCount |-> GatePrimitive[i] = "speech"]

\* the segmenter's state when the loop has gone over every whole frame
GateLoopEnd == VadLoop(reset_state, 0, GateFrameCount, GateClasses, DefaultVadConfig)

\* stream positions of the granules between two frame indices
FramePositions(index) ==
    LET gpf == GranulesPerFrame(gate.fmt.is_int16)
        first == index[1] * gpf
        last == Min(index[2] * gpf, Len(gate.buf.g)) - 1
    IN  [k \in 1..(last - first + 1) |-> first + k - 1]

\* segment k returned is the one between the frame indices of index
IsSegmentAt(k, index) ==
    /\ ~gate.out.segments[k].fallback
    /\ gate.out.segments[k].start = FrameTicks(index[1])
    /\ gate.out.segments[k].end = FrameTicks(index[2])
    /\ Positions(gate.out.segments[k].audio) = FramePositions(index)

\* ---------------------------------------------------------------- C34

\* C34: a candidate open at the end of the buffer is emitted iff its
\* speech_frame_count >= min_speech_frames, and then it is the last segment
\* and ends at frame_count, with no padding; the samples after the last whole
\* frame are handed to process_frame in no frame and are part of no segment
\* other than the fallback
C34_EndOfBuffer ==
    Segmented =>
        LET st == GateLoopEnd
            open == st.is_speech
                        /\ st.speech_frame_count >= DefaultVadConfig.min_speech_frames
            closed == Len(st.indices)
            returned == {k \in 1..Len(gate.out.segments) :
                            ~gate.out.segments[k].fallback}
        IN  /\ gate.out.frames = GateFrameCount
            /\ returned = 1..(closed + (IF open THEN 1 ELSE 0))
            /\ open => IsSegmentAt(closed + 1, <<st.speech_start_frame, GateFrameCount>>)
            /\ \A k \in returned :
                  \A j \in 1..Len(gate.out.segments[k].audio) :
                      gate.out.segments[k].audio[j].p
                          < GateFrameCount * GranulesPerFrame(gate.fmt.is_int16)

\* the buffer ends in half a frame of speech, inside a candidate that is
\* long enough: the candidate is returned up to the last whole frame
C34_Witness ==
    /\ Segmented
    /\ Len(gate.buf.g) % GranulesPerFrame(gate.fmt.is_int16) # 0
    /\ gate.buf.g[Len(gate.buf.g)].l = "speech"
    /\ GateLoopEnd.is_speech
    /\ Len(gate.out.segments) = Len(GateLoopEnd.indices) + 1
    /\ ~gate.out.segments[Len(gate.out.segments)].fallback
    /\ gate.out.segments[Len(gate.out.segments)].end = FrameTicks(GateFrameCount)

\* ---------------------------------------------------------------- C35

\* C35: segment_audio never returns an empty list: when the loop and the end
\* of the buffer emit no segment it returns one entry that holds every
\* sample, those after the last whole frame included, with timestamps
\* (0, samples / sample_rate); when a segment was emitted it returns the
\* emitted segments and no entry for the whole buffer
C35_FallbackIffNoSegment ==
    Segmented =>
        LET indices == SegmentIndices(GateClasses, DefaultVadConfig)
            samples == Len(gate.buf.g) * SamplesPerGranule(gate.fmt.is_int16)
        IN  /\ gate.out.segments # << >>
            /\ segment_audio(gate.buf.g, gate.fmt.sample_rate, gate.fmt.is_int16,
                             DefaultVadConfig) = gate.out.segments
            /\ indices = << >> =>
                  /\ Len(gate.out.segments) = 1
                  /\ gate.out.segments[1].fallback
                  /\ gate.out.segments[1].audio = gate.buf.g
                  /\ gate.out.segments[1].start = 0
                  /\ gate.out.segments[1].end
                        = SamplesToTicks(samples, gate.fmt.sample_rate)
            /\ indices # << >> =>
                  /\ Len(gate.out.segments) = Len(indices)
                  /\ \A k \in 1..Len(indices) : IsSegmentAt(k, indices[k])

\* a loud buffer without a long enough run of speech frames, ending in part
\* of a frame, came back whole
C35_Witness ==
    /\ Segmented
    /\ GateFrameCount >= 1
    /\ Len(gate.buf.g) % GranulesPerFrame(gate.fmt.is_int16) # 0
    /\ SegmentIndices(GateClasses, DefaultVadConfig) = << >>
    /\ Len(gate.out.segments) = 1
    /\ gate.out.segments[1].fallback

\* ---------------------------------------------------------------- C36

\* the primitive fails on some frame of the buffer passed
PrimitiveFails == \E i \in 1..GateFrameCount : GatePrimitive[i] = "raise"

\* C36: when the primitive fails on frames of a buffer, process_with_vad
\* still returns, and returns the segments of the classification in which
\* those frames are non-speech and every other frame keeps the primitive's
\* answer
C36_PrimitiveFailureIsNonSpeech ==
    (gate.ran /\ gate.buf.x = 0 /\ gate.out.loud /\ PrimitiveFails) =>
        /\ ~gate.out.raised
        /\ gate.out.segments =
              SegmentsOf(gate.buf.g,
                         SegmentIndices(
                             [i \in 1..GateFrameCount |->
                                 (IF GatePrimitive[i] = "raise" THEN "nonspeech"
                                  ELSE GatePrimitive[i]) = "speech"],
                             DefaultVadConfig),
                         gate.fmt.sample_rate, gate.fmt.is_int16)

\* the primitive failed on every frame of a buffer that holds more speech
\* than the shortest segment, and the buffer came back whole
C36_Witness ==
    /\ Segmented
    /\ PrimitiveFails
    /\ GateFrameCount >= DefaultVadConfig.min_speech_frames
    /\ \A k \in 1..Len(gate.buf.g) : gate.buf.g[k].l = "speech"
    /\ Len(gate.out.segments) = 1
    /\ gate.out.segments[1].fallback


\* ---------------------------------------------------------------- C37

\* the sum of the mathematical |sample| over the granules, per sample of a
\* granule
SumMagnitudes(g) ==
    LET magnitude(v) == IF v >= 0 THEN v ELSE 0 - v
        count(l) == Cardinality({k \in 1..Len(g) : g[k].l = l})
    IN  magnitude(SampleValue("zero")) * count("zero")
            + magnitude(SampleValue("speech")) * count("speech")
            + magnitude(SampleValue("noise")) * count("noise")
            + magnitude(SampleValue("lowest")) * count("lowest")

\* C37: for every non-empty int16 buffer the energy gate answers loud enough
\* exactly when the arithmetic mean of the absolute values of the samples is
\* strictly greater than the threshold, whatever int16 values the samples
\* have, -32768 included
C37_GateIsMeanMagnitude ==
    (gate.ran /\ gate.fmt.is_int16 /\ gate.buf.x = 0 /\ gate.buf.g # << >>) =>
        (gate.out.loud <=> SumMagnitudes(gate.buf.g) > gate.threshold * Len(gate.buf.g))

\* the part of C37 that holds: buffers without a sample of -32768
C37_GateWithoutLowest ==
    (gate.ran /\ gate.fmt.is_int16 /\ gate.buf.x = 0 /\ gate.buf.g # << >>
        /\ \A k \in 1..Len(gate.buf.g) : gate.buf.g[k].l # "lowest") =>
        (gate.out.loud <=> SumMagnitudes(gate.buf.g) > gate.threshold * Len(gate.buf.g))


\* ---------------------------------------------------------------- C38

\* the session's entry as a call on sid finds it
EntryBefore(sid) ==
    IF audio_cache[sid].present THEN audio_cache[sid]
    ELSE NewSession(client.sample_rate, client.is_int16)

\* whole samples that the energy gate finds not loud enough
FailsGate(b, threshold) ==
    /\ BufLen(b) > 0
    /\ b.x = 0
    /\ ~is_audio_loud_enough(b.g, threshold)

\* C38: audio of a combined buffer that fails the energy gate is never
\* handed to the engine: a ready round whose combined buffer fails the gate
\* makes no engine call, and neither does a finalize whose remaining audio
\* fails the gate
C38_Step(sid) ==
    (ncalls' = ncalls + 1 /\ call'.task_id = sid) =>
        /\ (call'.round
              /\ FailsGate(CombinedBuffer(Appended(EntryBefore(sid), call'.audio)),
                           client.hallucinate_threshold))
               => call'.engine_calls = 0
        /\ (FinalizeCall(call') /\ audio_cache[sid].present
              /\ FailsGate(RemainingAudio(audio_cache[sid]), HALLUCINATE_THRESHOLD))
               => call'.engine_calls = 0

C38_GateFailureCallsNoEngine == [][\A sid \in SessionIds : C38_Step(sid)]_vars

\* the part of C38 that holds: the ready round
C38_RoundGateFailureCallsNoEngine ==
    [][\A sid \in SessionIds :
          (ncalls' = ncalls + 1 /\ call'.task_id = sid /\ call'.round
              /\ FailsGate(CombinedBuffer(Appended(EntryBefore(sid), call'.audio)),
                           client.hallucinate_threshold))
               => call'.engine_calls = 0]_vars


\* ---------------------------------------------------------------- C39

\* C39: a call whose params carry action = "finish-task" for a session that
\* exists forces finalization: whatever the buffered duration and whether or
\* not the call carries audio, it answers status "completed" with is_final
\* true, never "buffering"
C39_Step(sid) ==
    (ncalls' = ncalls + 1 /\ call'.task_id = sid /\ call'.action = "finish-task"
        /\ audio_cache[sid].present)
       => (result'.status = "completed" /\ result'.is_final)

C39_FinishTaskFinalizes == [][\A sid \in SessionIds : C39_Step(sid)]_vars

\* the part of C39 that holds: a finish-task call that carries no audio
C39_FinishTaskWithoutAudioFinalizes ==
    [][\A sid \in SessionIds :
          (ncalls' = ncalls + 1 /\ call'.task_id = sid /\ call'.action = "finish-task"
              /\ audio_cache[sid].present /\ BufLen(call'.audio) = 0)
             => (result'.status = "completed" /\ result'.is_final)]_vars

\* ---------------------------------------------------------------- C40

\* the engine calls made for sid by the call just made
NewCalls(sid) ==
    SubSeq(submitted'[sid], Len(submitted[sid]) + 1, Len(submitted'[sid]))

\* C40: the finalize transcribes with the session's language: every engine
\* call made by _finalize_processing is passed the language parameter that
\* the session's calls supply, also when no earlier round produced a chunk
C40_Step(sid) ==
    (ncalls' = ncalls + 1 /\ call'.task_id = sid /\ submitted'[sid] # << >>) =>
        \A k \in 1..Len(NewCalls(sid)) :
            NewCalls(sid)[k].final =>
                NewCalls(sid)[k].language = FormatLanguage(client.language)

C40_FinalizeUsesSessionLanguage == [][\A sid \in SessionIds : C40_Step(sid)]_vars

\* the part of C40 that holds: a finalize after a round that produced chunks
C40_FinalizeAfterChunksUsesSessionLanguage ==
    [][\A sid \in SessionIds :
          (ncalls' = ncalls + 1 /\ call'.task_id = sid /\ submitted'[sid] # << >>
              /\ audio_cache[sid].present /\ audio_cache[sid].accumulated_chunks # << >>)
             => \A k \in 1..Len(NewCalls(sid)) :
                    NewCalls(sid)[k].final =>
                        NewCalls(sid)[k].language = FormatLanguage(client.language)]_vars

=============================================================================
